---------------------------- MODULE Spec2Model ----------------------------
(***************************************************************************)
(* PolyWord: the constrained, pixel-accurate word placement engine.        *)
(*                                                                         *)
(*   frontend/src/advancedCloud/advancedSpiralPlacer.js  (placement)       *)
(*   advancedCloud/spriteWordMask.js (unnamed/part_003)  (sprites)         *)
(*   frontend/src/renderSpiralAdvanced.js                (adaptive sizing) *)
(*                                                                         *)
(* Grids (Uint8Array) are sequences of 0/1; the code's 0-based index cp is *)
(* the sequence index cp + 1.  A missing option (null / undefined) is a    *)
(* flag beside the value.  Numbers with a fractional part are kept as      *)
(* scaled integers, the scale being named where it is used.                *)
(***************************************************************************)
EXTENDS Integers, Sequences, FiniteSets, TLC

(***************************************************************************)
(* Bounds of the model.                                                    *)
(***************************************************************************)
\* canvas of the render requests (opts.w, opts.h with opts.fixedSize)
CanvasW == 12
CanvasH == 5
\* the random start jitter is in whole pixels, at most this far out
MaxJitter == 1
\* candidates examined along one spiral (the code's maxTriesPerWord is capped by it)
MaxSpiralTries == 24
\* candidates per turn of the spiral
StepsPerTurn == 8
\* entries the sprite cache holds (the code's DEFAULT_CACHE holds 400)
CacheLimit == 2
\* cache operations followed in one run
MaxCacheOps == 4
\* canvas of the image masks (params.width, params.height)
ImgW == 3
ImgH == 3
\* raster buffer of the crop (the code's buffer is at least 8 x 8)
BufW == 3
BufH == 3

(***************************************************************************)
(* Arithmetic helpers.                                                     *)
(***************************************************************************)
Min(a, b) == IF a <= b THEN a ELSE b
Max(a, b) == IF a >= b THEN a ELSE b

\* Math.ceil(n / d) for d > 0
CeilDiv(n, d) == -((-n) \div d)

\* F applied to the value of v, v being evaluated once
Bind(v, F(_)) == CHOOSE r \in {F(x) : x \in {v}} : TRUE

\* a grid of n cells all equal to v: new Uint8Array(n) is Zeros
Fill(n, v) == [k \in 1..n |-> v]

\* m[cp] of a typed array: a read outside the array gives undefined (here 2)
Cell(m, cp) == IF cp + 1 \in 1..Len(m) THEN m[cp + 1] ELSE 2

(***************************************************************************)
(* Sprite rasterizer (spriteWordMask.js, unnamed/part_003).                *)
(*                                                                         *)
(* A text is a sequence of characters, "x" an inked character and " " a    *)
(* blank one.  The text renderer is external; the model takes the metrics  *)
(* of the code's own fallback (ascent 0.8 size, descent 0.2 size, advance  *)
(* 0.6 size per character) and a block font: an inked character fills its  *)
(* share of the ink box, a blank one leaves it transparent.                *)
(***************************************************************************)
\* Math.ceil(left + right) with left = 0, right = size * length * 0.6
InkW(text, size) == CeilDiv(6 * size * Len(text), 10)

\* Math.ceil(size * 0.8 + size * 0.2) in IEEE doubles: the sum exceeds size
\* by one ulp for the sizes listed (3 * 0.8 + 3 * 0.2 = 3.0000000000000004)
InkH(size) == IF size \in {3, 6, 7, 12, 14, 23, 24} THEN size + 1 ELSE size

\* the anti-clipping border of the raster buffer
safety == 2

\* whether buffer pixel (x, y) gets alpha >= alphaThreshold
RasterInk(text, size, padding, x, y) ==
    LET iw == InkW(text, size)
        ih == InkH(size)
        c  == x - (padding + safety)
        r  == y - (padding + safety)
    IN  /\ c \in 0..(iw - 1)
        /\ r \in 0..(ih - 1)
        /\ text[((c * Len(text)) \div iw) + 1] = "x"

\* clamp(v, lo, hi)
clamp(v, lo, hi) == Max(lo, Min(hi, v))

SetMin(S) == CHOOSE v \in S : \A u \in S : v <= u
SetMax(S) == CHOOSE v \in S : \A u \in S : v >= u

\* lines 284-307: the tight box <<x0, y0, x1, y1>> of the ink in the W x H
\* buffer; <<0, 0, 0, 0>> when there is no ink
TightBox(text, size, padding, W, H) ==
    Bind({x \in 0..(W - 1) : \E y \in 0..(H - 1) : RasterInk(text, size, padding, x, y)},
         LAMBDA inkXs :
    Bind({y \in 0..(H - 1) : \E x \in 0..(W - 1) : RasterInk(text, size, padding, x, y)},
         LAMBDA inkYs :
           IF inkXs = {}
           THEN <<0, 0, 0, 0>>
           ELSE <<SetMin(inkXs), SetMin(inkYs), SetMax(inkXs), SetMax(inkYs)>>))

rasterizeWordToMask(text, fontSize, padding) ==
    LET safeSize == Max(1, fontSize)
        W  == Max(8, InkW(text, safeSize) + 2 * (padding + safety))
        H  == Max(8, InkH(safeSize) + 2 * (padding + safety))
        padPx  == Max(0, padding)
    IN  Bind(TightBox(text, safeSize, padding, W, H), LAMBDA b :
          LET cropX0 == clamp(b[1] - padPx, 0, W - 1)
              cropY0 == clamp(b[2] - padPx, 0, H - 1)
              cropX1 == clamp(b[3] + padPx, 0, W - 1)
              cropY1 == clamp(b[4] + padPx, 0, H - 1)
              CW == cropX1 - cropX0 + 1
              CH == cropY1 - cropY0 + 1
          IN  [ text    |-> text,
                width   |-> CW,
                height  |-> CH,
                mask    |-> [k \in 1..(CW * CH) |->
                               IF RasterInk(text, safeSize, padding,
                                            cropX0 + ((k - 1) % CW),
                                            cropY0 + ((k - 1) \div CW))
                               THEN 1 ELSE 0],
                padding |-> padding ])

\* The cache returns the sprite a rasterization of the same key gives.
getWordSprite(text, fontSize, padding) ==
    rasterizeWordToMask(text, fontSize, Max(0, padding))

(***************************************************************************)
(* Placement engine (advancedSpiralPlacer.js).                             *)
(***************************************************************************)
insideCanvasRect(x, y, w, h, width, height) ==
    x >= 0 /\ y >= 0 /\ x + w <= width /\ y + h <= height

\* the ink pixels (mask value 1) of a sprite, as sprite coordinates <<xx, yy>>
SpriteInk(sprite) ==
    {c \in (0..(sprite.width - 1)) \X (0..(sprite.height - 1)) :
        sprite.mask[c[2] * sprite.width + c[1] + 1] = 1}

\* canPlaceAt without the occupancy test of line 375
canPlaceAtAnyOccupancy(sprite, x, y, canvasW, canvasH, hasMask, allowedMask, occupiedMask) ==
    /\ ~(x < 0 \/ y < 0 \/ x + sprite.width > canvasW \/ y + sprite.height > canvasH)
    /\ \A yy \in 0..(sprite.height - 1) : \A xx \in 0..(sprite.width - 1) :
         sprite.mask[yy * sprite.width + xx + 1] = 1 =>
             ~(hasMask /\ Cell(allowedMask, (y + yy) * canvasW + (x + xx)) # 1)

\* canPlaceAt without the allowed-mask test of line 370
canPlaceAtAnyRegion(sprite, x, y, canvasW, canvasH, hasMask, allowedMask, occupiedMask) ==
    /\ ~(x < 0 \/ y < 0 \/ x + sprite.width > canvasW \/ y + sprite.height > canvasH)
    /\ \A yy \in 0..(sprite.height - 1) : \A xx \in 0..(sprite.width - 1) :
         sprite.mask[yy * sprite.width + xx + 1] = 1 =>
             ~(Cell(occupiedMask, (y + yy) * canvasW + (x + xx)) = 1)

\* canPlaceAt testing every cell of the sprite, inked or not
canPlaceAtWholeBox(sprite, x, y, canvasW, canvasH, hasMask, allowedMask, occupiedMask) ==
    /\ ~(x < 0 \/ y < 0 \/ x + sprite.width > canvasW \/ y + sprite.height > canvasH)
    /\ \A yy \in 0..(sprite.height - 1) : \A xx \in 0..(sprite.width - 1) :
         LET cp == (y + yy) * canvasW + (x + xx)
         IN  /\ ~(hasMask /\ Cell(allowedMask, cp) # 1)
             /\ ~(Cell(occupiedMask, cp) = 1)

canPlaceAt(sprite, x, y, canvasW, canvasH, hasMask, allowedMask, occupiedMask) ==
    /\ ~(x < 0 \/ y < 0 \/ x + sprite.width > canvasW \/ y + sprite.height > canvasH)
    /\ \A yy \in 0..(sprite.height - 1) : \A xx \in 0..(sprite.width - 1) :
         LET sp == yy * sprite.width + xx
             cp == (y + yy) * canvasW + (x + xx)
         IN  sprite.mask[sp + 1] = 1 =>
               /\ ~(hasMask /\ Cell(allowedMask, cp) # 1)
               /\ ~(Cell(occupiedMask, cp) = 1)

\* the canvas indices cp written by stampOccupied
StampCells(sprite, x, y, canvasW) ==
    {(y + c[2]) * canvasW + (x + c[1]) : c \in SpriteInk(sprite)}

\* stampOccupied writing the sprite's cells into a cleared grid
stampOverwriting(sprite, x, y, canvasW, occupiedMask) ==
    Bind(StampCells(sprite, x, y, canvasW), LAMBDA cps :
      [k \in 1..Len(occupiedMask) |-> IF (k - 1) \in cps THEN 1 ELSE 0])

\* stampOccupied marking every cell under the sprite, inked or not
stampWholeBox(sprite, x, y, canvasW, occupiedMask) ==
    Bind({(y + yy) * canvasW + (x + xx) :
            xx \in 0..(sprite.width - 1), yy \in 0..(sprite.height - 1)}, LAMBDA cps :
      [k \in 1..Len(occupiedMask) |->
         IF (k - 1) \in cps THEN 1 ELSE occupiedMask[k]])

stampOccupied(sprite, x, y, canvasW, occupiedMask) ==
    Bind(StampCells(sprite, x, y, canvasW), LAMBDA cps :
      [k \in 1..Len(occupiedMask) |->
         IF (k - 1) \in cps THEN 1 ELSE occupiedMask[k]])

(***************************************************************************)
(* The spiral.  t advances by tStep per candidate and r = spiralStep * t.  *)
(* The code steps by 0.03 rad, about 209 candidates a turn; the model      *)
(* steps by a whole fraction of a turn, StepsPerTurn candidates a turn.    *)
(* Each candidate is computed with integers: angles in thousandths of a    *)
(* radian, cos and sin in hundredths, spiralStep in tenths of a pixel, the *)
(* centre (cx, cy) doubled, products in millionths of a pixel.             *)
(***************************************************************************)
\* Math.PI, in thousandths of a radian
Pi1000 == 3142
TwoPi == 2 * Pi1000

\* tStep, in thousandths of a radian
tStep == TwoPi \div StepsPerTurn

\* cos x for x in -pi/2 .. pi/2, by (pi^2 - 4 x^2) / (pi^2 + x^2)
CosNear(x) == (100 * (Pi1000 * Pi1000 - 4 * x * x)) \div (Pi1000 * Pi1000 + x * x)

\* Math.cos(t) and Math.sin(t) for t >= 0
cos100(t) ==
    LET m == t % TwoPi
    IN  IF 2 * m <= Pi1000 THEN CosNear(m)
        ELSE IF 2 * m <= 3 * Pi1000 THEN -CosNear(m - Pi1000)
        ELSE CosNear(m - TwoPi)
sin100(t) == cos100(t + 3 * (Pi1000 \div 2))

\* Math.round(v) for v = n / 1000000
Round6(n) == (n + 500000) \div 1000000

\* the k-th candidate: the top-left <<x, y>> tested at t = k * tStep
SpiralCandidate(k, cx2, cy2, sw, sh, spiralStep10) ==
    LET r4 == spiralStep10 * k * tStep
    IN  << Round6(cx2 * 500000 + r4 * cos100(k * tStep) - sw * 500000),
           Round6(cy2 * 500000 + r4 * sin100(k * tStep) - sh * 500000) >>

RECURSIVE SpiralSearch(_, _)
SpiralSearch(k, p) ==
    IF ~(k * tStep <= p.spiralTurns * TwoPi /\ k < p.maxTries)
    THEN [found |-> FALSE, x |-> 0, y |-> 0, tries |-> k]
    ELSE LET c == SpiralCandidate(k, p.cx2, p.cy2, p.sprite.width, p.sprite.height,
                                  p.spiralStep10)
         IN  IF /\ insideCanvasRect(c[1], c[2], p.sprite.width, p.sprite.height,
                                    p.width, p.height)
                /\ canPlaceAt(p.sprite, c[1], c[2], p.width, p.height,
                              p.hasMask, p.allowedMask, p.occupiedMask)
             THEN [found |-> TRUE, x |-> c[1], y |-> c[2], tries |-> k + 1]
             ELSE SpiralSearch(k + 1, p)

\* tryPlaceOne without the quick reject of line 256
tryPlaceOneUnchecked(p) == SpiralSearch(0, p)

\* tryPlaceOne following the spiral for as many turns as it has tries
tryPlaceOneAnyAngle(p) ==
    IF p.sprite.width > p.width \/ p.sprite.height > p.height
    THEN [found |-> FALSE, x |-> 0, y |-> 0, tries |-> 0]
    ELSE SpiralSearch(0, [p EXCEPT !.spiralTurns = p.maxTries])

\* p: sprite, width, height, cx2, cy2, maxTries, spiralStep10, spiralTurns,
\*    hasMask, allowedMask, occupiedMask.  The result also says how many
\*    candidates were examined.
tryPlaceOne(p) ==
    IF p.sprite.width > p.width \/ p.sprite.height > p.height
    THEN [found |-> FALSE, x |-> 0, y |-> 0, tries |-> 0]
    ELSE SpiralSearch(0, p)

\* calculateCoverage counting the allowed cells that are not occupied
calculateUncovered(occupiedMask, hasMask, allowedMask, width, height) ==
    LET allowedArea ==
            IF hasMask
            THEN Cardinality({k \in 1..Len(allowedMask) : allowedMask[k] = 1})
            ELSE width * height
        occupiedArea ==
            IF hasMask
            THEN Cardinality({k \in 1..Len(allowedMask) :
                                allowedMask[k] = 1 /\ Cell(occupiedMask, k - 1) # 1})
            ELSE Cardinality({k \in 1..Len(occupiedMask) : occupiedMask[k] # 1})
    IN  [ allowedArea  |-> allowedArea,
          occupiedArea |-> occupiedArea,
          num |-> IF allowedArea > 0 THEN occupiedArea ELSE 0,
          den |-> IF allowedArea > 0 THEN allowedArea ELSE 1 ]

\* calculateCoverage counting every occupied cell, allowed or not
calculateCoverageAnywhere(occupiedMask, hasMask, allowedMask, width, height) ==
    LET allowedArea ==
            IF hasMask
            THEN Cardinality({k \in 1..Len(allowedMask) : allowedMask[k] = 1})
            ELSE width * height
        occupiedArea ==
            Cardinality({k \in 1..Len(occupiedMask) : occupiedMask[k] = 1})
    IN  [ allowedArea  |-> allowedArea,
          occupiedArea |-> occupiedArea,
          num |-> IF allowedArea > 0 THEN occupiedArea ELSE 0,
          den |-> IF allowedArea > 0 THEN allowedArea ELSE 1 ]

\* coverage as the pair occupiedArea / allowedArea; the ratio is 0 / 1 when
\* allowedArea = 0
calculateCoverage(occupiedMask, hasMask, allowedMask, width, height) ==
    LET allowedArea ==
            IF hasMask
            THEN Cardinality({k \in 1..Len(allowedMask) : allowedMask[k] = 1})
            ELSE width * height
        occupiedArea ==
            IF hasMask
            THEN Cardinality({k \in 1..Len(allowedMask) :
                                allowedMask[k] = 1 /\ Cell(occupiedMask, k - 1) = 1})
            ELSE Cardinality({k \in 1..Len(occupiedMask) : occupiedMask[k] = 1})
    IN  [ allowedArea  |-> allowedArea,
          occupiedArea |-> occupiedArea,
          num |-> IF allowedArea > 0 THEN occupiedArea ELSE 0,
          den |-> IF allowedArea > 0 THEN allowedArea ELSE 1 ]

\* a / b < c / d, a / b >= c / d for ratios with positive denominators
RatioLess(a, b) == a.num * b.den < b.num * a.den
RatioGE(a, b) == ~RatioLess(a, b)

(***************************************************************************)
(* State.                                                                  *)
(*                                                                         *)
(* One call of placeWordsAdvanced (pw...): its position, its arguments,    *)
(* its locals and what it returned.  spriteRequests and candidatesTested   *)
(* count the getWordSprite calls and the candidates examined in the call.  *)
(*                                                                         *)
(* The sprite cache (DEFAULT_CACHE): cacheMap is its Map, the entries in    *)
(* insertion order; lastUsed says at which operation a key was last used,  *)
(* cacheOps counts the operations and lastReturn is what the last          *)
(* getWordSprite call was asked and what it returned.                      *)
(*                                                                         *)
(* One load of an image mask (imgData, shapeParams, rawMask, imageMask),   *)
(* described with loadImageMask below.                                     *)
(*                                                                         *)
(* One run of renderSpiralAdvanced: its position pc, the request, the      *)
(* normalised word list and the locals of the adaptive branch.             *)
(* phase1Coverage is the coverage measured at line 408; omitted records,   *)
(* per word the force sub-pass gave up on, the free cells left then.       *)
(***************************************************************************)
VARIABLES pwPc, pwOpts, pwWords, pwI, pwOccupied, pwPlacements, pwResult,
          spriteRequests, candidatesTested,
          pc, req, sorted, i, attempt, forceSize, forceAttempt,
          occupiedMask, placements, coverage, duplicateCount,
          phase1Coverage, omitted,
          cacheMap, lastUsed, cacheOps, lastReturn,
          imgData, shapeParams, rawMask, imageMask,
          inkBuf, cropPadding, cropped,
          twinReq, twinOpts, twinCaches, twinOut,
          rPc, domRoots, rootLayers, zoomRoot, statusLine, overlap

pwVars == <<pwPc, pwOpts, pwWords, pwI, pwOccupied, pwPlacements, pwResult,
            spriteRequests, candidatesTested>>
renderVars == <<pc, req, sorted, i, attempt, forceSize, forceAttempt,
                occupiedMask, placements, coverage, duplicateCount,
                phase1Coverage, omitted>>
cacheVars == <<cacheMap, lastUsed, cacheOps, lastReturn>>
maskVars == <<imgData, shapeParams, rawMask, imageMask>>
cropVars == <<inkBuf, cropPadding, cropped>>
twinVars == <<twinReq, twinOpts, twinCaches, twinOut>>
appVars == <<rPc, domRoots, rootLayers, zoomRoot, statusLine, overlap>>
extraVars == <<cropVars, twinVars, appVars>>
vars == <<pwVars, renderVars, cacheVars, maskVars, extraVars>>

(***************************************************************************)
(* placeWordsAdvanced(words, opts).                                        *)
(***************************************************************************)
\* the options as lines 124-143 read them
ReadOpts(o) ==
    [ width           |-> Max(1, o.width),
      height          |-> Max(1, o.height),
      hasMask         |-> o.hasMask,
      allowedMask     |-> o.allowedMask,
      wordPadding     |-> Max(0, o.wordPadding),
      maxTriesPerWord |-> Min(MaxSpiralTries, Max(50, o.maxTriesPerWord)),
      spiralStep10    |-> Max(5, o.spiralStep10),
      spiralTurns     |-> Max(1, o.spiralTurns),
      startJitter     |-> Max(0, o.startJitter) ]

\* the test of line 128 catching only a mask that is too short
MaskTooShort(o) ==
    o.hasMask /\ Len(o.allowedMask) < Max(1, o.width) * Max(1, o.height)

\* line 128
MaskMismatch(o) ==
    o.hasMask /\ Len(o.allowedMask) # Max(1, o.width) * Max(1, o.height)

\* the grid of lines 156-158 when existingOccupiedMask is ignored
InitialOccupiedFresh(o) == Fill(Max(1, o.width) * Max(1, o.height), 0)

\* lines 156-158: a copy of existingOccupiedMask, or an empty grid
InitialOccupied(o) ==
    IF o.hasExisting
    THEN o.existingOccupiedMask
    ELSE Fill(Max(1, o.width) * Max(1, o.height), 0)

\* (Math.random() * 2 - 1) * startJitter: none, or the whole of it either way
Jitters(startJitter) ==
    {-Min(startJitter, MaxJitter), 0, Min(startJitter, MaxJitter)}

\* PlaceSprite putting the new placement in front of the earlier ones
PlaceSpriteInFront(occ, placed, w, sprite, jx, jy, ro) ==
    Bind(tryPlaceOne([ sprite       |-> sprite,
                       width        |-> ro.width,
                       height       |-> ro.height,
                       cx2          |-> ro.width + 2 * jx,
                       cy2          |-> ro.height + 2 * jy,
                       maxTries     |-> ro.maxTriesPerWord,
                       spiralStep10 |-> ro.spiralStep10,
                       spiralTurns  |-> ro.spiralTurns,
                       hasMask      |-> ro.hasMask,
                       allowedMask  |-> ro.allowedMask,
                       occupiedMask |-> occ ]), LAMBDA got :
      [ found        |-> got.found,
        tries        |-> got.tries,
        occupiedMask |-> IF got.found
                         THEN stampOccupied(sprite, got.x, got.y, ro.width, occ)
                         ELSE occ,
        placements   |-> IF got.found
                         THEN << 
                                [ text     |-> w.text,
                                  x        |-> got.x,
                                  y        |-> got.y,
                                  w        |-> sprite.width,
                                  h        |-> sprite.height,
                                  fontSize |-> Max(1, w.size),
                                  padding  |-> ro.wordPadding ] >> \o placed
                         ELSE placed ])

\* lines 177-222: the sprite is tried from the centre moved by the jitter
\* (jx, jy).  Gives the grid and the placements after it.
PlaceSprite(occ, placed, w, sprite, jx, jy, ro) ==
    Bind(tryPlaceOne([ sprite       |-> sprite,
                       width        |-> ro.width,
                       height       |-> ro.height,
                       cx2          |-> ro.width + 2 * jx,
                       cy2          |-> ro.height + 2 * jy,
                       maxTries     |-> ro.maxTriesPerWord,
                       spiralStep10 |-> ro.spiralStep10,
                       spiralTurns  |-> ro.spiralTurns,
                       hasMask      |-> ro.hasMask,
                       allowedMask  |-> ro.allowedMask,
                       occupiedMask |-> occ ]), LAMBDA got :
      [ found        |-> got.found,
        tries        |-> got.tries,
        occupiedMask |-> IF got.found
                         THEN stampOccupied(sprite, got.x, got.y, ro.width, occ)
                         ELSE occ,
        placements   |-> IF got.found
                         THEN Append(placed,
                                [ text     |-> w.text,
                                  x        |-> got.x,
                                  y        |-> got.y,
                                  w        |-> sprite.width,
                                  h        |-> sprite.height,
                                  fontSize |-> Max(1, w.size),
                                  padding  |-> ro.wordPadding ])
                         ELSE placed ])

\* lines 172-223, one iteration: word w on the grid occ.  The outcomes the
\* iteration can have, one per draw of the jitter.
PlaceWord(occ, placed, w, o) ==
    Bind(getWordSprite(w.text, Max(1, w.size), ReadOpts(o).wordPadding), LAMBDA sprite :
      { PlaceSprite(occ, placed, w, sprite, jx, jy, ReadOpts(o)) :
          jx \in Jitters(ReadOpts(o).startJitter),
          jy \in Jitters(ReadOpts(o).startJitter) })

\* the result of lines 225-231 with placedCount taken from the word list
PlaceResultCountingWords(occ, placed, words, o) ==
    LET ro == ReadOpts(o)
    IN  [ placements   |-> placed,
          occupiedMask |-> occ,
          stats        |-> [ placedCount |-> Len(words),
                             totalCount  |-> Len(words),
                             coverage    |-> calculateCoverage(occ, ro.hasMask,
                                               ro.allowedMask, ro.width, ro.height) ] ]

\* lines 225-231
PlaceResult(occ, placed, words, o) ==
    LET ro == ReadOpts(o)
    IN  [ placements   |-> placed,
          occupiedMask |-> occ,
          stats        |-> [ placedCount |-> Len(placed),
                             totalCount  |-> Len(words),
                             coverage    |-> calculateCoverage(occ, ro.hasMask,
                                               ro.allowedMask, ro.width, ro.height) ] ]

NoResult == [ placements |-> <<>>, occupiedMask |-> <<>>,
              stats |-> [ placedCount |-> 0, totalCount |-> 0,
                          coverage |-> [ allowedArea |-> 0, occupiedArea |-> 0,
                                         num |-> 0, den |-> 1 ] ] ]

\* line 128-132: the call throws
PlaceThrow ==
    /\ UNCHANGED <<cacheVars, maskVars, extraVars>>
    /\ pwPc = "entry"
    /\ MaskMismatch(pwOpts)
    /\ pwPc' = "thrown"
    /\ UNCHANGED <<pwOpts, pwWords, pwI, pwOccupied, pwPlacements, pwResult,
                   spriteRequests, candidatesTested, renderVars>>

\* lines 124-170: the arguments are accepted and the grid is set up
PlaceEnter ==
    /\ UNCHANGED <<cacheVars, maskVars, extraVars>>
    /\ pwPc = "entry"
    /\ ~MaskMismatch(pwOpts)
    /\ pwPc' = "loop"
    /\ pwOccupied' = InitialOccupied(pwOpts)
    /\ pwPlacements' = <<>>
    /\ pwI' = 0
    /\ UNCHANGED <<pwOpts, pwWords, pwResult, spriteRequests, candidatesTested,
                   renderVars>>

\* lines 172-223: word pwI
PlaceLoop ==
    /\ UNCHANGED <<cacheVars, maskVars, extraVars>>
    /\ pwPc = "loop"
    /\ pwI < Len(pwWords)
    /\ \E step \in PlaceWord(pwOccupied, pwPlacements, pwWords[pwI + 1], pwOpts) :
             /\ pwOccupied' = step.occupiedMask
             /\ pwPlacements' = step.placements
             /\ candidatesTested' = candidatesTested + step.tries
    /\ spriteRequests' = spriteRequests + 1
    /\ pwI' = pwI + 1
    /\ UNCHANGED <<pwPc, pwOpts, pwWords, pwResult, renderVars>>

\* lines 225-231: the call returns
PlaceReturn ==
    /\ UNCHANGED <<cacheVars, maskVars, extraVars>>
    /\ pwPc = "loop"
    /\ pwI >= Len(pwWords)
    /\ pwResult' = PlaceResult(pwOccupied, pwPlacements, pwWords, pwOpts)
    /\ pwPc' = "returned"
    /\ UNCHANGED <<pwOpts, pwWords, pwI, pwOccupied, pwPlacements,
                   spriteRequests, candidatesTested, renderVars>>

(***************************************************************************)
(* placeWordsAdvanced([w], opts) as one call: the calls the adaptive       *)
(* branch makes hand over a single word.  The results the call can return. *)
(***************************************************************************)
placeOneWord(w, o) ==
    { PlaceResult(step.occupiedMask, step.placements, <<w>>, o) :
        step \in PlaceWord(InitialOccupied(o), <<>>, w, o) }

(***************************************************************************)
(* renderSpiralAdvanced (renderSpiralAdvanced.js).                         *)
(***************************************************************************)
\* a grid cell that is allowed and not occupied (lines 85-89, 135-138)
FreeCell(occ, hasMask, mask, idx) ==
    (~hasMask \/ Cell(mask, idx) = 1) /\ ~(Cell(occ, idx) = 1)

\* the horizontal gap of row y that starts at x0 and is w cells wide
IsGap(occ, hasMask, mask, width, y, x0, w) ==
    /\ w >= 1
    /\ x0 + w <= width
    /\ \A x \in x0..(x0 + w - 1) : FreeCell(occ, hasMask, mask, y * width + x)
    /\ (x0 = 0 \/ ~FreeCell(occ, hasMask, mask, y * width + x0 - 1))
    /\ (x0 + w = width \/ ~FreeCell(occ, hasMask, mask, y * width + x0 + w))

\* the scan with >= in place of > at lines 91 and 106: a later gap of the
\* same width replaces the earlier one
LastWidest(gaps) ==
    CHOOSE g \in gaps :
        \A o \in gaps : \/ o[3] < g[3]
                        \/ (o[3] = g[3] /\ ~(o[1] > g[1] \/ (o[1] = g[1] /\ o[2] > g[2])))

\* the scan keeps the first gap <<y, x, w>> of the greatest width
FirstWidest(gaps) ==
    CHOOSE g \in gaps :
        \A o \in gaps : \/ o[3] < g[3]
                        \/ (o[3] = g[3] /\ ~(o[1] < g[1] \/ (o[1] = g[1] /\ o[2] < g[2])))

\* lines 124-152: rows y .. y + h - 1 are free across the gap
RowsFree(occ, hasMask, mask, width, best, h) ==
    \A dy \in 0..(h - 1) : \A dx \in 0..(best[3] - 1) :
        FreeCell(occ, hasMask, mask, (best[1] + dy) * width + (best[2] + dx))

findWidestAvailableSpace(occ, hasMask, mask, width, height) ==
    Bind({g \in (0..(height - 1)) \X (0..(width - 1)) \X (1..width) :
             IsGap(occ, hasMask, mask, width, g[1], g[2], g[3])}, LAMBDA gaps :
      IF gaps = {}
      THEN [found |-> FALSE, x |-> 0, y |-> 0, width |-> 0, height |-> 0]
      ELSE Bind(FirstWidest(gaps), LAMBDA best :
             [ found  |-> TRUE, x |-> best[2], y |-> best[1], width |-> best[3],
               height |-> CHOOSE h \in 1..(height - best[1]) :
                            /\ RowsFree(occ, hasMask, mask, width, best, h)
                            /\ \/ h = height - best[1]
                               \/ ~RowsFree(occ, hasMask, mask, width, best, h + 1) ]))

\* lines 229-237: the words with a text and a positive size, largest first
\* (Array.prototype.sort is stable)
Keep(d) == Len(d.text) > 0 /\ d.size > 0

RECURSIVE Filtered(_)
Filtered(ws) ==
    IF ws = <<>> THEN <<>>
    ELSE IF Keep(Head(ws)) THEN <<Head(ws)>> \o Filtered(Tail(ws))
         ELSE Filtered(Tail(ws))

\* insert d behind every word that is at least as large
RECURSIVE InsertBySize(_, _)
InsertBySize(d, ws) ==
    IF ws = <<>> THEN <<d>>
    ELSE IF Head(ws).size >= d.size
         THEN <<Head(ws)>> \o InsertBySize(d, Tail(ws))
         ELSE <<d>> \o ws

RECURSIVE SortedBySize(_)
SortedBySize(ws) ==
    IF ws = <<>> THEN <<>>
    ELSE InsertBySize(ws[Len(ws)], SortedBySize(SubSeq(ws, 1, Len(ws) - 1)))

\* the normalisation without the sort of line 237
NormalizeUnsorted(words) == Filtered(words)

Normalize(words) == SortedBySize(Filtered(words))

\* lines 275-278
Sizes(ws) == {ws[k].size : k \in 1..Len(ws)}
minSize(ws) == CHOOSE v \in Sizes(ws) : \A u \in Sizes(ws) : v <= u
maxSize(ws) == CHOOSE v \in Sizes(ws) : \A u \in Sizes(ws) : v >= u

\* line 288
minAttemptSize == 4

RECURSIVE Pow(_, _)
Pow(b, e) == IF e = 0 THEN 1 ELSE b * Pow(b, e - 1)

\* the loop test without the attemptSize * 0.7 of line 345: the attempt size
\* stays the size of the word
AttemptSizeNeverShrinks(size, k) == size >= minAttemptSize

\* attemptSize = word.size * 0.7^k after k failed attempts (line 345);
\* the loop test attemptSize >= minAttemptSize of line 291
AttemptSizeOK(size, k) == size * Pow(7, k) >= minAttemptSize * Pow(10, k)

\* lines 293-305: the size of the k-th attempt.  nonlinearPower is in
\* tenths; 10 leaves the size alone and 5 is the square root:
\*   Math.floor((minSize + sqrt(normalized) * sizeRange) * 0.7^k)
\* is the largest m with (m 10^k - 7^k minSize)^2 <= 49^k (size - minSize) sizeRange
SizedWordSize(size, k, ws, nonlinearPower10) ==
    LET mn == minSize(ws)
        sizeRange == maxSize(ws) - mn
        q  == (size - mn) * sizeRange
        D(m) == m * Pow(10, k) - Pow(7, k) * mn
        scaled ==
            IF sizeRange > 0 /\ nonlinearPower10 # 10
            THEN CHOOSE m \in 0..maxSize(ws) :
                    /\ (D(m) <= 0 \/ D(m) * D(m) <= Pow(49, k) * q)
                    /\ ~(D(m + 1) <= 0 \/ D(m + 1) * D(m + 1) <= Pow(49, k) * q)
            ELSE (size * Pow(7, k)) \div Pow(10, k)
    IN  Max(4, scaled)

\* lines 339-341: the controller's grid takes every bit of the result
MergeOccupied(occ, resultMask) ==
    [k \in 1..Len(occ) |-> IF Cell(resultMask, k - 1) = 1 THEN 1 ELSE occ[k]]

\* the record of a placement that keeps no index: every one gets 0
RecordedUnmarked(p, originalIndex, phase) ==
    [ text |-> p.text, x |-> p.x, y |-> p.y, w |-> p.w, h |-> p.h,
      fontSize |-> p.fontSize, padding |-> p.padding,
      originalIndex |-> 0, phase |-> phase ]

\* the placement as the controller records it; phase says which loop made it
Recorded(p, originalIndex, phase) ==
    [ text |-> p.text, x |-> p.x, y |-> p.y, w |-> p.w, h |-> p.h,
      fontSize |-> p.fontSize, padding |-> p.padding,
      originalIndex |-> originalIndex, phase |-> phase ]

\* the options of the four call sites (lines 307-326, 361-377, 429-448, 466-481)
CallOpts(wordPadding, maxTries, spiralStep10, spiralTurns, startJitter, hasExisting, occ) ==
    [ width |-> CanvasW, height |-> CanvasH,
      hasMask |-> TRUE, allowedMask |-> req.mask,
      wordPadding |-> wordPadding, maxTriesPerWord |-> maxTries,
      spiralStep10 |-> spiralStep10, spiralTurns |-> spiralTurns,
      startJitter |-> startJitter,
      hasExisting |-> hasExisting, existingOccupiedMask |-> occ ]

ShrinkOpts == CallOpts(req.wordPadding, 15000, 5, 250, 4, TRUE, occupiedMask)
ForceOpts  == CallOpts(Max(0, req.wordPadding - 1), 25000, 2, 400, 8, TRUE, occupiedMask)
FillOpts   == CallOpts(req.wordPadding, 5000, 5, 100, 2, TRUE, occupiedMask)
PlainOpts  == CallOpts(req.wordPadding, 10000, 10, 200, 6, FALSE, <<>>)

FreeCells(occ) ==
    Cardinality({k \in 1..Len(occ) : FreeCell(occ, TRUE, req.mask, k - 1)})

(***************************************************************************)
(* The steps of one render.                                                *)
(***************************************************************************)
pwIdle ==
    /\ pwPc = "idle"
    /\ pwOpts = PlainOpts
    /\ pwWords = <<>>
    /\ pwI = 0
    /\ pwOccupied = <<>>
    /\ pwPlacements = <<>>
    /\ pwResult = NoResult
    /\ spriteRequests = 0
    /\ candidatesTested = 0

\* lines 197-283: the mask is built, the words are normalised and the branch
\* is taken; the non-adaptive branch calls placeWordsAdvanced(sorted, ...)
RenderStart ==
    /\ UNCHANGED <<cacheVars, maskVars, extraVars>>
    /\ pc = "start"
    /\ sorted' = Normalize(req.words)
    /\ occupiedMask' = Fill(CanvasW * CanvasH, 0)
    /\ i' = 0
    /\ IF req.adaptive
       THEN /\ pc' = "word"
            /\ UNCHANGED pwVars
       ELSE /\ pc' = "plain"
            /\ pwPc' = "entry"
            /\ pwOpts' = PlainOpts
            /\ pwWords' = Normalize(req.words)
            /\ UNCHANGED <<pwI, pwOccupied, pwPlacements, pwResult,
                           spriteRequests, candidatesTested>>
    /\ UNCHANGED <<req, attempt, forceSize, forceAttempt, placements, coverage,
                   duplicateCount, phase1Coverage, omitted>>

\* lines 284-291, 350-353: word i starts at its own size; a word below the
\* floor skips the shrink loop
BeginWord ==
    /\ UNCHANGED <<cacheVars, maskVars, extraVars>>
    /\ pc = "word"
    /\ i < Len(sorted)
    /\ attempt' = 0
    /\ forceSize' = minAttemptSize
    /\ forceAttempt' = 0
    /\ pc' = IF AttemptSizeOK(sorted[i + 1].size, 0) THEN "shrink" ELSE "force"
    /\ UNCHANGED <<pwVars, req, sorted, i, occupiedMask, placements, coverage,
                   duplicateCount, phase1Coverage, omitted>>

\* lines 291-347: one attempt of the shrink loop
ShrinkAttempt ==
    /\ UNCHANGED <<cacheVars, maskVars, extraVars>>
    /\ pc = "shrink"
    /\ LET word == sorted[i + 1]
           sizedWord == [word EXCEPT !.size =
                            SizedWordSize(word.size, attempt, sorted, req.nonlinearPower10)]
       IN  \E result \in placeOneWord(sizedWord, ShrinkOpts) :
                 IF Len(result.placements) > 0
                 THEN /\ placements' = Append(placements,
                                          Recorded(result.placements[1], i, "shrink"))
                      /\ occupiedMask' = MergeOccupied(occupiedMask, result.occupiedMask)
                      /\ i' = i + 1
                      /\ pc' = "word"
                      /\ UNCHANGED attempt
                 ELSE /\ attempt' = attempt + 1
                      /\ pc' = IF AttemptSizeOK(word.size, attempt + 1)
                               THEN "shrink" ELSE "force"
                      /\ UNCHANGED <<placements, occupiedMask, i>>
    /\ UNCHANGED <<pwVars, req, sorted, forceSize, forceAttempt, coverage,
                   duplicateCount, phase1Coverage, omitted>>

\* the next force size without the floor of 2
NextForceSizeNoFloor(size) == (size * 8) \div 10

\* line 394: Math.max(2, Math.floor(forceSize * 0.8))
NextForceSize(size) == Max(2, (size * 8) \div 10)

\* lines 355-396: one attempt of the force sub-pass; after the tenth failure
\* the word is left out (lines 398-400)
ForceAttempt ==
    /\ UNCHANGED <<cacheVars, maskVars, extraVars>>
    /\ pc = "force"
    /\ LET word == sorted[i + 1]
           minWord == [word EXCEPT !.size = forceSize]
       IN  \E result \in placeOneWord(minWord, ForceOpts) :
                 IF Len(result.placements) > 0
                 THEN /\ placements' = Append(placements,
                                          Recorded(result.placements[1], i, "force"))
                      /\ occupiedMask' = MergeOccupied(occupiedMask, result.occupiedMask)
                      /\ i' = i + 1
                      /\ pc' = "word"
                      /\ UNCHANGED <<forceSize, forceAttempt, omitted>>
                 ELSE /\ forceSize' = NextForceSize(forceSize)
                      /\ forceAttempt' = forceAttempt + 1
                      /\ IF forceAttempt + 1 < 10
                         THEN /\ pc' = "force"
                              /\ UNCHANGED <<i, omitted>>
                         ELSE /\ pc' = "word"
                              /\ i' = i + 1
                              /\ omitted' = omitted \cup
                                    {[index |-> i, free |-> FreeCells(occupiedMask)]}
                      /\ UNCHANGED <<placements, occupiedMask>>
    /\ UNCHANGED <<pwVars, req, sorted, attempt, coverage, duplicateCount,
                   phase1Coverage>>

\* lines 408-413: Phase 1 is over; the coverage is measured and the fill
\* loop is entered when it is below the target
MeasureCoverage ==
    /\ UNCHANGED <<cacheVars, maskVars, extraVars>>
    /\ pc = "word"
    /\ i >= Len(sorted)
    /\ \E c \in {calculateCoverage(occupiedMask, TRUE, req.mask, CanvasW, CanvasH)} :
           /\ coverage' = c
           /\ phase1Coverage' = c
           /\ pc' = IF RatioLess(c, req.targetCoverage) THEN "fill" ELSE "draw"
    /\ duplicateCount' = 0
    /\ UNCHANGED <<pwVars, req, sorted, i, attempt, forceSize, forceAttempt,
                   occupiedMask, placements, omitted>>

\* line 411: sorted.slice(Math.floor(sorted.length * 0.6))
smallWords == SubSeq(sorted, ((6 * Len(sorted)) \div 10) + 1, Len(sorted))
\* the duplicate budget without the word count
maxDuplicatesFlat == Min(400, 8)

\* line 412
maxDuplicates == Min(400, Len(sorted) * 8)

\* the fill loop without the duplicateCount++ of line 458
FillAttemptUncounted ==
    /\ UNCHANGED <<cacheVars, maskVars, extraVars>>
    /\ pc = "fill"
    /\ IF ~(RatioLess(coverage, req.targetCoverage) /\ duplicateCount < maxDuplicates)
       THEN /\ pc' = "draw"
            /\ UNCHANGED <<placements, occupiedMask, coverage, duplicateCount>>
       ELSE \E n \in 1..Len(smallWords) :
            \E widestSpace \in {findWidestAvailableSpace(occupiedMask, TRUE, req.mask,
                                                         CanvasW, CanvasH)} :
              LET wordToDuplicate == smallWords[n]
                  optimalSize == Max(4, (10 * widestSpace.width)
                                           \div (6 * Len(wordToDuplicate.text)))
                  duplicateWord == [wordToDuplicate EXCEPT !.size = optimalSize]
              IN  IF ~widestSpace.found \/ widestSpace.width < 6
                  THEN /\ pc' = "draw"
                       /\ UNCHANGED <<placements, occupiedMask, coverage, duplicateCount>>
                  ELSE \E result \in placeOneWord(duplicateWord, FillOpts) :
                         IF Len(result.placements) > 0
                         THEN /\ placements' = Append(placements,
                                      Recorded(result.placements[1], -1, "fill"))
                              /\ occupiedMask' =
                                      MergeOccupied(occupiedMask, result.occupiedMask)
                              /\ coverage' = calculateCoverage(
                                      MergeOccupied(occupiedMask, result.occupiedMask),
                                      TRUE, req.mask, CanvasW, CanvasH)
                              /\ duplicateCount' = duplicateCount
                              /\ pc' = "fill"
                         ELSE /\ pc' = "draw"
                              /\ UNCHANGED <<placements, occupiedMask, coverage,
                                             duplicateCount>>
    /\ UNCHANGED <<pwVars, req, sorted, i, attempt, forceSize, forceAttempt,
                   phase1Coverage, omitted>>

\* lines 415-462: one iteration of the fill loop
FillAttempt ==
    /\ UNCHANGED <<cacheVars, maskVars, extraVars>>
    /\ pc = "fill"
    /\ IF ~(RatioLess(coverage, req.targetCoverage) /\ duplicateCount < maxDuplicates)
       THEN /\ pc' = "draw"
            /\ UNCHANGED <<placements, occupiedMask, coverage, duplicateCount>>
       ELSE \E n \in 1..Len(smallWords) :
            \E widestSpace \in {findWidestAvailableSpace(occupiedMask, TRUE, req.mask,
                                                         CanvasW, CanvasH)} :
              LET wordToDuplicate == smallWords[n]
                  optimalSize == Max(4, (10 * widestSpace.width)
                                           \div (6 * Len(wordToDuplicate.text)))
                  duplicateWord == [wordToDuplicate EXCEPT !.size = optimalSize]
              IN  IF ~widestSpace.found \/ widestSpace.width < 6
                  THEN /\ pc' = "draw"
                       /\ UNCHANGED <<placements, occupiedMask, coverage, duplicateCount>>
                  ELSE \E result \in placeOneWord(duplicateWord, FillOpts) :
                         IF Len(result.placements) > 0
                         THEN /\ placements' = Append(placements,
                                      Recorded(result.placements[1], -1, "fill"))
                              /\ occupiedMask' =
                                      MergeOccupied(occupiedMask, result.occupiedMask)
                              /\ coverage' = calculateCoverage(
                                      MergeOccupied(occupiedMask, result.occupiedMask),
                                      TRUE, req.mask, CanvasW, CanvasH)
                              /\ duplicateCount' = duplicateCount + 1
                              /\ pc' = "fill"
                         ELSE /\ pc' = "draw"
                              /\ UNCHANGED <<placements, occupiedMask, coverage,
                                             duplicateCount>>
    /\ UNCHANGED <<pwVars, req, sorted, i, attempt, forceSize, forceAttempt,
                   phase1Coverage, omitted>>

\* line 482: the non-adaptive branch takes the placements of its one call
PlainResult ==
    /\ UNCHANGED <<cacheVars, maskVars, extraVars>>
    /\ pc = "plain"
    /\ pwPc = "returned"
    /\ placements' = pwResult.placements
    /\ pc' = "draw"
    /\ UNCHANGED <<pwVars, req, sorted, i, attempt, forceSize, forceAttempt,
                   occupiedMask, coverage, duplicateCount, phase1Coverage, omitted>>

\* lines 485-530: the placements are drawn and the render returns
Draw ==
    /\ UNCHANGED <<cacheVars, maskVars, extraVars>>
    /\ pc = "draw"
    /\ pc' = "done"
    /\ UNCHANGED <<pwVars, req, sorted, i, attempt, forceSize, forceAttempt,
                   occupiedMask, placements, coverage, duplicateCount,
                   phase1Coverage, omitted>>

(***************************************************************************)
(* The sprite cache (spriteWordMask.js, unnamed/part_003).                 *)
(*                                                                         *)
(* A string is a sequence of characters.  A sprite object is known by the  *)
(* operation that made it (id) and by the parameters it was rasterized     *)
(* from (madeFor).                                                         *)
(***************************************************************************)
\* String(n) for a number n >= 0
Digits == <<"0", "1", "2", "3", "4", "5", "6", "7", "8", "9">>

RECURSIVE Str(_)
Str(n) == IF n < 10 THEN <<Digits[n + 1]>> ELSE Str(n \div 10) \o <<Digits[(n % 10) + 1]>>

\* parts.join("|")
RECURSIVE Join(_)
Join(parts) ==
    IF Len(parts) = 0 THEN <<>>
    ELSE IF Len(parts) = 1 THEN parts[1]
    ELSE parts[1] \o <<"|">> \o Join(Tail(parts))

\* lines 31-53; a missing string is the empty one, a missing number is 0
makeKey(params) ==
    Join(<< params.text,
            params.fontFamily,
            params.fontWeight,
            params.fontStyle,
            Str(params.fontSize),
            Str(params.rotate),
            Str(params.padding),
            Str(IF params.devicePixelRatio = 0 THEN 1 ELSE params.devicePixelRatio) >>)

\* lines 136-148: the parameters as getWordSprite passes them on
SpriteKeyParams(params) ==
    [params EXCEPT !.padding = Max(0, params.padding),
                   !.devicePixelRatio = clamp(params.devicePixelRatio, 1, 3)]

\* Map.has, Map.delete
CacheHas(map, key) == \E n \in 1..Len(map) : map[n].key = key
CacheDelete(map, key) == SelectSeq(map, LAMBDA e : e.key # key)
CacheValue(map, key) == (CHOOSE n \in 1..Len(map) : map[n].key = key)

\* LRUCache.get that leaves the Map as it is
LruGetInPlace(map, key) == map

\* LRUCache.get, lines 74-81: the Map after the call
LruGet(map, key) ==
    IF ~CacheHas(map, key) THEN map
    ELSE Append(CacheDelete(map, key), map[CacheValue(map, key)])

\* LRUCache.set, lines 82-89: the Map after the call
LruSet(map, key, value) ==
    LET set == Append(CacheDelete(map, key), [key |-> key, value |-> value])
    IN  IF Len(set) > CacheLimit THEN Tail(set) ELSE set

\* the calls of the model: two texts and two font families, one of each
\* with the separator of the key in it, and two alpha thresholds
SpriteCalls ==
    { [ text |-> t, fontFamily |-> f, fontWeight |-> <<>>, fontStyle |-> <<>>,
        fontSize |-> 12, rotate |-> 0, padding |-> 1, devicePixelRatio |-> 1,
        alphaThreshold |-> a ] :
        t \in {<<"a">>, <<"a", "|", "b">>}, f \in {<<"c">>, <<"b", "|", "c">>},
        a \in {16, 200} }

\* the alpha the drawn text leaves in the raster buffer: for each character
\* a solid pixel and an anti-aliased one at its edge
GlyphAlpha(text) == [k \in 1..(2 * Len(text)) |-> IF k % 2 = 1 THEN 255 ELSE 100]

\* rasterizeWordToMask(p), lines 185-351: the sprite of the text drawn in
\* the font of p and cut at the alphaThreshold of p (line 294)
FreshSprite(p) ==
    [ text    |-> p.text,
      font    |-> <<p.fontStyle, p.fontWeight, p.fontSize, p.fontFamily>>,
      mask    |-> [k \in 1..(2 * Len(p.text)) |->
                     IF GlyphAlpha(p.text)[k] >= p.alphaThreshold THEN 1 ELSE 0],
      rotate  |-> p.rotate,
      padding |-> p.padding ]

CacheKeys == {makeKey(SpriteKeyParams(q)) : q \in SpriteCalls}

NoReturn == [called |-> FALSE, hit |-> FALSE, params |-> <<>>, sprite |-> <<>>]

cacheIdle ==
    /\ cacheMap = <<>>
    /\ lastUsed = [k \in CacheKeys |-> 0]
    /\ cacheOps = 0
    /\ lastReturn = NoReturn

\* cache.get(key) called on its own
CacheGet ==
    /\ pc = "cache"
    /\ cacheOps < MaxCacheOps
    /\ \E key \in CacheKeys :
         /\ cacheMap' = LruGet(cacheMap, key)
         /\ lastUsed' = IF CacheHas(cacheMap, key)
                        THEN [lastUsed EXCEPT ![key] = cacheOps + 1]
                        ELSE lastUsed
    /\ cacheOps' = cacheOps + 1
    /\ UNCHANGED <<lastReturn, pwVars, renderVars, maskVars, extraVars>>

\* cache.set(key, sprite) called on its own, with a sprite just made
CacheSet ==
    /\ pc = "cache"
    /\ cacheOps < MaxCacheOps
    /\ \E q \in SpriteCalls :
         /\ cacheMap' = LruSet(cacheMap, makeKey(SpriteKeyParams(q)),
                               [id |-> cacheOps + 1, madeFor |-> SpriteKeyParams(q)])
         /\ lastUsed' = [lastUsed EXCEPT ![makeKey(SpriteKeyParams(q))] = cacheOps + 1]
    /\ cacheOps' = cacheOps + 1
    /\ UNCHANGED <<lastReturn, pwVars, renderVars, maskVars, extraVars>>

\* getWordSprite(params), lines 134-157
GetWordSprite ==
    /\ pc = "cache"
    /\ cacheOps < MaxCacheOps
    /\ \E q \in SpriteCalls :
         LET p == SpriteKeyParams(q)
             key == makeKey(p)
             sprite == [id |-> cacheOps + 1, madeFor |-> p]
         IN  IF CacheHas(cacheMap, key)
             THEN /\ cacheMap' = LruGet(cacheMap, key)
                  /\ lastReturn' = [ called |-> TRUE, hit |-> TRUE, params |-> p,
                                     sprite |-> cacheMap[CacheValue(cacheMap, key)].value ]
                  /\ lastUsed' = [lastUsed EXCEPT ![key] = cacheOps + 1]
             ELSE /\ cacheMap' = LruSet(cacheMap, key, sprite)
                  /\ lastReturn' = [ called |-> TRUE, hit |-> FALSE, params |-> p,
                                     sprite |-> sprite ]
                  /\ lastUsed' = [lastUsed EXCEPT ![key] = cacheOps + 1]
    /\ cacheOps' = cacheOps + 1
    /\ UNCHANGED <<pwVars, renderVars, maskVars, extraVars>>

(***************************************************************************)
(* Image masks (maskUtils.js).                                             *)
(*                                                                         *)
(* imgData is what getImageData gives for the canvas the image was drawn   *)
(* on, one pixel [r, g, b, a] per cell; shapeParams are the parameters of  *)
(* loadImageMask.  rawMask is the mask as alphaToMask or luminanceToMask   *)
(* classified it and imageMask the mask loadImageMask returns.             *)
(***************************************************************************)
\* alphaToMask, lines 43-53
alphaToMask(data, alphaThreshold) ==
    [p \in 1..Len(data) |-> IF data[p].a >= alphaThreshold THEN 1 ELSE 0]

\* 0.2126 r + 0.7152 g + 0.0722 b, in ten-thousandths
Lum10000(px) == 2126 * px.r + 7152 * px.g + 722 * px.b

\* luminanceToMask, lines 66-94
luminanceToMask(data, threshold, mode) ==
    [p \in 1..Len(data) |->
        IF data[p].a = 0 THEN 0
        ELSE IF mode = "dark"
             THEN (IF Lum10000(data[p]) <= 10000 * threshold THEN 1 ELSE 0)
             ELSE (IF Lum10000(data[p]) >= 10000 * threshold THEN 1 ELSE 0)]

\* |v|
Abs(v) == IF v < 0 THEN -v ELSE v

\* a square neighbourhood (Chebyshev distance) in place of the diamond
Square(x, y, r) == ((x - r)..(x + r)) \X ((y - r)..(y + r))

\* the cells <<xx, yy>> the scan of lines 133-169 visits around (x, y): the
\* diamond of Manhattan radius r, cells outside the canvas included
Diamond(x, y, r) ==
    {c \in ((x - r)..(x + r)) \X ((y - r)..(y + r)) :
        Abs(c[1] - x) + Abs(c[2] - y) <= r}

InCanvas(c, width, height) ==
    c[1] >= 0 /\ c[1] < width /\ c[2] >= 0 /\ c[2] < height

\* morphMask, lines 108-174
morphMask(mask, width, height, radius, op) ==
    LET r == Max(0, radius)
    IN  IF r = 0 THEN mask
        ELSE [k \in 1..(width * height) |->
                LET x == (k - 1) % width
                    y == (k - 1) \div width
                IN  IF op = "dilate"
                    THEN (IF \E c \in Diamond(x, y, r) :
                                /\ InCanvas(c, width, height)
                                /\ mask[c[2] * width + c[1] + 1] = 1
                          THEN 1 ELSE 0)
                    ELSE (IF \A c \in Diamond(x, y, r) :
                                /\ InCanvas(c, width, height)
                                /\ mask[c[2] * width + c[1] + 1] = 1
                          THEN 1 ELSE 0)]

\* lines 334-341: the classification loadImageMask asks for
ClassifyImage(data, params) ==
    IF params.mode = "luminance"
    THEN luminanceToMask(data, params.luminanceThreshold, params.luminanceMode)
    ELSE alphaToMask(data, params.alphaThreshold)

\* lines 343-349
PadShape(mask, width, height, shapePadding) ==
    IF shapePadding = 0 THEN mask
    ELSE IF shapePadding > 0
         THEN morphMask(mask, width, height, shapePadding, "erode")
         ELSE morphMask(mask, width, height, -shapePadding, "dilate")

\* the pixels of the model: transparent, barely visible, opaque black and
\* opaque white
Pixel(r, g, b, a) == [r |-> r, g |-> g, b |-> b, a |-> a]
Pixels == { Pixel(0, 0, 0, 0), Pixel(0, 0, 0, 1),
            Pixel(0, 0, 0, 255), Pixel(255, 255, 255, 255) }

\* the images of the model: a background with one pixel of its own in the
\* middle
Images ==
    { [k \in 1..(ImgW * ImgH) |->
         IF k - 1 = (ImgH \div 2) * ImgW + (ImgW \div 2) THEN fg ELSE bg] :
      fg \in Pixels, bg \in Pixels }

ShapeParams ==
    { [ mode |-> m, alphaThreshold |-> at, luminanceThreshold |-> lt,
        luminanceMode |-> lm, shapePadding |-> sp ] :
        m \in {"alpha", "luminance"}, at \in {0, 1, 128}, lt \in {0, 200},
        lm \in {"dark", "light"}, sp \in {-2, -1, 0, 1, 2} }

NoShape == [ mode |-> "alpha", alphaThreshold |-> 1, luminanceThreshold |-> 200,
             luminanceMode |-> "dark", shapePadding |-> 0 ]

maskIdle ==
    /\ imgData = <<>>
    /\ shapeParams = NoShape
    /\ rawMask = <<>>
    /\ imageMask = <<>>

\* loadImageMask, lines 310-352, from the image drawn on the canvas
LoadImageMask ==
    /\ pc = "mask"
    /\ rawMask' = ClassifyImage(imgData, shapeParams)
    /\ imageMask' = PadShape(ClassifyImage(imgData, shapeParams), ImgW, ImgH,
                             shapeParams.shapePadding)
    /\ pc' = "masked"
    /\ UNCHANGED <<imgData, shapeParams, pwVars, cacheVars, extraVars,
                   req, sorted, i, attempt, forceSize, forceAttempt,
                   occupiedMask, placements, coverage, duplicateCount,
                   phase1Coverage, omitted>>

(***************************************************************************)
(* The crop of the raster buffer (spriteWordMask.js, lines 279-349) and    *)
(* the collision scan that trusts the bbox field of the sprite.  inkBuf is *)
(* the set of buffer pixels <<x, y>> whose alpha reached the threshold;    *)
(* cropped is the sprite built from it.                                    *)
(***************************************************************************)
\* lines 284-307: the tight box <<x0, y0, x1, y1>> of the ink; the 1x1 box
\* at the origin when there is none
InkBox(ink) ==
    IF ink = {}
    THEN <<0, 0, 0, 0>>
    ELSE << SetMin({c[1] : c \in ink}), SetMin({c[2] : c \in ink}),
            SetMax({c[1] : c \in ink}), SetMax({c[2] : c \in ink}) >>

\* lines 309-349: crop to the tight box plus the padding, clamped to the
\* buffer, and the bbox field
cropBuffer(ink, W, H, padding) ==
    LET padPx == Max(0, padding)
        b == InkBox(ink)
        cropX0 == clamp(b[1] - padPx, 0, W - 1)
        cropY0 == clamp(b[2] - padPx, 0, H - 1)
        cropX1 == clamp(b[3] + padPx, 0, W - 1)
        cropY1 == clamp(b[4] + padPx, 0, H - 1)
        CW == cropX1 - cropX0 + 1
        CH == cropY1 - cropY0 + 1
    IN  [ width   |-> CW,
          height  |-> CH,
          mask    |-> [k \in 1..(CW * CH) |->
                         IF <<cropX0 + ((k - 1) % CW), cropY0 + ((k - 1) \div CW)>> \in ink
                         THEN 1 ELSE 0],
          bbox    |-> [x0 |-> padPx, y0 |-> padPx,
                       x1 |-> CW - 1 - padPx, y1 |-> CH - 1 - padPx],
          padding |-> padding ]

\* clampInt of the earlier placer: lines 283-288
clampInt(v, lo, hi) == IF v < lo THEN lo ELSE IF v > hi THEN hi ELSE v

\* canPlaceAt of the earlier placer, lines 222-255: only the pixels inside
\* the bbox are scanned
canPlaceAtBbox(sprite, x, y, canvasW, canvasH, hasMask, allowed, occupied) ==
    /\ ~(x < 0 \/ y < 0 \/ x + sprite.width > canvasW \/ y + sprite.height > canvasH)
    /\ LET x0 == clampInt(sprite.bbox.x0, 0, sprite.width - 1)
           y0 == clampInt(sprite.bbox.y0, 0, sprite.height - 1)
           x1 == clampInt(sprite.bbox.x1, 0, sprite.width - 1)
           y1 == clampInt(sprite.bbox.y1, 0, sprite.height - 1)
       IN  \A yy \in y0..y1 : \A xx \in x0..x1 :
             LET sp == yy * sprite.width + xx
                 cp == (y + yy) * canvasW + (x + xx)
             IN  sprite.mask[sp + 1] = 1 =>
                   /\ ~(hasMask /\ Cell(allowed, cp) # 1)
                   /\ ~(Cell(occupied, cp) = 1)

\* the ink patterns of the model: every set of pixels of the buffer
BufCells == (0..(BufW - 1)) \X (0..(BufH - 1))

NoSprite == [ width |-> 0, height |-> 0, mask |-> <<>>,
              bbox |-> [x0 |-> 0, y0 |-> 0, x1 |-> 0, y1 |-> 0], padding |-> 0 ]

cropIdle ==
    /\ inkBuf = {}
    /\ cropPadding = 0
    /\ cropped = NoSprite


\* steps 2 and 3 of rasterizeWordToMask on the buffer the text was drawn in
CropSprite ==
    /\ pc = "crop"
    /\ cropped' = cropBuffer(inkBuf, BufW, BufH, cropPadding)
    /\ pc' = "cropped"
    /\ UNCHANGED <<inkBuf, cropPadding, pwVars, cacheVars, maskVars, twinVars, appVars,
                   req, sorted, i, attempt, forceSize, forceAttempt,
                   occupiedMask, placements, coverage, duplicateCount,
                   phase1Coverage, omitted>>

(***************************************************************************)
(* The render requests of the model.                                       *)
(***************************************************************************)
Word(text, size) == [text |-> text, size |-> size]

WordLists ==
    { <<>>,
      << Word(<<"x", "x">>, 4) >>,
      << Word(<<"x">>, 5), Word(<<"x", "x">>, 6) >>,
      << Word(<<>>, 5), Word(<<"x">>, 0), Word(<<"x", " ", "x">>, 3), Word(<<" ">>, 4) >>,
      << Word(<<" ">>, 4), Word(<<"x", "x">>, 4) >> }

\* allowed masks: everything, nothing, all but the middle column, the centre
\* cell alone
FullMask  == Fill(CanvasW * CanvasH, 1)
EmptyMask == Fill(CanvasW * CanvasH, 0)
SplitMask == [k \in 1..(CanvasW * CanvasH) |->
                IF (k - 1) % CanvasW = CanvasW \div 2 THEN 0 ELSE 1]
DotMask   == [k \in 1..(CanvasW * CanvasH) |->
                IF k - 1 = (CanvasH \div 2) * CanvasW + (CanvasW \div 2) THEN 1 ELSE 0]
Masks == {FullMask, EmptyMask, SplitMask, DotMask}

Ratio(n, d) == [num |-> n, den |-> d]

\* opts.targetCoverage with opts.nonlinearPower (in tenths): the defaults, and
\* a low target with no compression
Tunings == { <<Ratio(85, 100), 5>>, <<Ratio(40, 100), 10>> }

Requests ==
    { [ words |-> ws, mask |-> m, adaptive |-> a, wordPadding |-> p,
        targetCoverage |-> t[1], nonlinearPower10 |-> t[2] ] :
        ws \in WordLists, m \in Masks, a \in BOOLEAN, p \in {0, 1}, t \in Tunings }

ZeroCoverage == [allowedArea |-> 0, occupiedArea |-> 0, num |-> 0, den |-> 1]

(***************************************************************************)
(* placeWordsAdvanced called on its own, by any caller: the grids it is    *)
(* handed may have any length.                                             *)
(***************************************************************************)
CallSizes == { <<3, 2>>, <<4, 2>>, <<0, 3>> }

\* a grid of n cells equal to v, but for the first, which is first
GridOf(n, first, v) == [k \in 1..n |-> IF k = 1 THEN first ELSE v]

\* the grids a caller hands over for a canvas of n cells, with has = TRUE, and
\* no grid at all
GridArgs(n, v) ==
    { <<FALSE, <<>>>> } \cup
    { <<TRUE, GridOf(n + d, first, v)>> : d \in {-1, 0, 1}, first \in {0, 1} }

CallWords ==
    { <<>>,
      << Word(<<"x">>, 1) >>,
      << Word(<<"x">>, 2), Word(<<"x">>, 1) >>,
      << Word(<<"x">>, 2), Word(<<"x">>, 2), Word(<<"x">>, 1) >>,
      << Word(<<"x">>, 1), Word(<<"x">>, 1) >> }

PlaceCalls ==
    UNION { { [ width |-> wh[1], height |-> wh[2],
                hasMask |-> a[1], allowedMask |-> a[2],
                wordPadding |-> 0, maxTriesPerWord |-> 50,
                spiralStep10 |-> 10, spiralTurns |-> 200, startJitter |-> 1,
                hasExisting |-> e[1], existingOccupiedMask |-> e[2] ] :
              a \in GridArgs(Max(1, wh[1]) * Max(1, wh[2]), 1),
              e \in GridArgs(Max(1, wh[1]) * Max(1, wh[2]), 0) } :
            wh \in CallSizes }

\* calls on a canvas with room for two padded words, with the padding and
\* without
PaddedCalls ==
    { [ width |-> 4, height |-> 4,
        hasMask |-> FALSE, allowedMask |-> <<>>,
        wordPadding |-> p, maxTriesPerWord |-> 50,
        spiralStep10 |-> 5, spiralTurns |-> 200, startJitter |-> 0,
        hasExisting |-> FALSE, existingOccupiedMask |-> <<>> ] : p \in {0, 1} }

\* calls whose spiral makes a single turn
ShortSpiralCalls ==
    { [ width |-> 3, height |-> 2,
        hasMask |-> FALSE, allowedMask |-> <<>>,
        wordPadding |-> 0, maxTriesPerWord |-> 50,
        spiralStep10 |-> 10, spiralTurns |-> t, startJitter |-> 0,
        hasExisting |-> FALSE, existingOccupiedMask |-> <<>> ] : t \in {0, 1} }

NoRequest ==
    [ words |-> <<>>, mask |-> <<>>, adaptive |-> FALSE, wordPadding |-> 0,
      targetCoverage |-> Ratio(0, 1), nonlinearPower10 |-> 10 ]

(***************************************************************************)
(* Two runs of placeWordsAdvanced on the same call, each on a sprite cache *)
(* of its own history.  twinReq is the word with the font of the call,     *)
(* twinOpts the options, twinCaches the Map of the cache each run finds    *)
(* and twinOut what each run returns.                                      *)
(***************************************************************************)
\* advancedSpiralPlacer.js lines 176-185: the parameters the loop hands to
\* getWordSprite
PlacerSpriteParams(q, ro) ==
    [ text |-> q.text, fontFamily |-> q.fontFamily, fontWeight |-> <<>>,
      fontStyle |-> <<>>, fontSize |-> Max(1, q.size), rotate |-> 0,
      padding |-> ro.wordPadding, devicePixelRatio |-> 1, alphaThreshold |-> 16 ]

\* getWordSprite, lines 150-156: the sprite found under the key, made for
\* whatever request put it there, or a new one
CachedWordSprite(map, p) ==
    IF CacheHas(map, makeKey(SpriteKeyParams(p)))
    THEN Bind(map[CacheValue(map, makeKey(SpriteKeyParams(p)))].value.madeFor,
              LAMBDA m : rasterizeWordToMask(m.text, m.fontSize, m.padding))
    ELSE rasterizeWordToMask(p.text, p.fontSize, Max(0, p.padding))

\* the Map after that getWordSprite call
CacheAfterSprite(map, p) ==
    IF CacheHas(map, makeKey(SpriteKeyParams(p)))
    THEN LruGet(map, makeKey(SpriteKeyParams(p)))
    ELSE LruSet(map, makeKey(SpriteKeyParams(p)), [id |-> 1, madeFor |-> SpriteKeyParams(p)])

\* placeWordsAdvanced([w], opts) with startJitter = 0 on the cache map
PlaceWithCache(map, q, o) ==
    Bind(PlaceSprite(InitialOccupied(o), <<>>, Word(q.text, q.size),
                     CachedWordSprite(map, PlacerSpriteParams(q, ReadOpts(o))),
                     0, 0, ReadOpts(o)), LAMBDA step :
      PlaceResult(step.occupiedMask, step.placements, <<Word(q.text, q.size)>>, o))

\* the words of the model with their fonts: the two give the same key
TwinRequests ==
    { [text |-> <<"x">>, fontFamily |-> <<"x", "|", "c">>, size |-> 2],
      [text |-> <<"x", "|", "x">>, fontFamily |-> <<"c">>, size |-> 2] }

\* the caches a run can find: a new one, or one an earlier getWordSprite
\* call of the same font size and padding has filled
TwinCacheStates(o) ==
    { <<>> } \cup
    { CacheAfterSprite(<<>>, PlacerSpriteParams(q, ReadOpts(o))) : q \in TwinRequests }

NoCall ==
    [ width |-> 0, height |-> 0, hasMask |-> FALSE, allowedMask |-> <<>>,
      wordPadding |-> 0, maxTriesPerWord |-> 0, spiralStep10 |-> 0,
      spiralTurns |-> 0, startJitter |-> 0,
      hasExisting |-> FALSE, existingOccupiedMask |-> <<>> ]

twinIdle ==
    /\ twinReq = [text |-> <<>>, fontFamily |-> <<>>, size |-> 0]
    /\ twinOpts = NoCall
    /\ twinCaches = <<>>
    /\ twinOut = <<>>


\* the two runs
RunTwice ==
    /\ pc = "twin"
    /\ twinOut' = [r \in 1..2 |-> PlaceWithCache(twinCaches[r], twinReq, twinOpts)]
    /\ twinCaches' = [r \in 1..2 |->
                        CacheAfterSprite(twinCaches[r],
                                         PlacerSpriteParams(twinReq, ReadOpts(twinOpts)))]
    /\ pc' = "twinned"
    /\ UNCHANGED <<twinReq, twinOpts, cropVars, appVars, pwVars, cacheVars, maskVars,
                   req, sorted, i, attempt, forceSize, forceAttempt,
                   occupiedMask, placements, coverage, duplicateCount,
                   phase1Coverage, omitted>>

(***************************************************************************)
(* The page (main.js): render() is triggered by the controls and awaits    *)
(* the parse of its input, then renderSpiralAdvanced, which awaits the     *)
(* mask.  Request 1 is triggered before request 2.  rPc is where each      *)
(* request stands; domRoots lists, by request, the root groups that are    *)
(* children of the SVG element; rootLayers counts the word layers in the   *)
(* root group each request made; zoomRoot is the request whose root group  *)
(* svgEl.__zoomBehavior transforms; statusLine is the last setStatus;      *)
(* overlap records that request 2 was triggered while request 1 awaited    *)
(* ("trigger") and that a request entered renderSpiralAdvanced while the   *)
(* other awaited its mask there ("enter").                                 *)
(***************************************************************************)
RequestIds == {1, 2}

\* svg.append("g") without the selectAll("*").remove() of line 199
svgAppendOnly(roots, r) == Append(roots, r)

\* renderSpiralAdvanced.js lines 198-212: the SVG is emptied, then gets the
\* root group of this call
svgAfterClear(roots, r) == <<r>>

NoStatus == [by |-> 0, text |-> "none"]

appIdle ==
    /\ rPc = [r \in RequestIds |-> "idle"]
    /\ domRoots = <<>>
    /\ rootLayers = [r \in RequestIds |-> 0]
    /\ zoomRoot = 0
    /\ statusLine = NoStatus
    /\ overlap = {}

extraIdle == cropIdle /\ twinIdle /\ appIdle

\* main.js render(), lines 374-382: a control fires, the status is set and
\* the parse is awaited
Trigger(r) ==
    /\ pc = "app"
    /\ rPc[r] = "idle"
    /\ \A earlier \in 1..(r - 1) : rPc[earlier] # "idle"
    /\ rPc' = [rPc EXCEPT ![r] = "parse"]
    /\ statusLine' = [by |-> r, text |-> "processing"]
    /\ overlap' = IF \E o \in RequestIds : rPc[o] \in {"parse", "mask"}
                  THEN overlap \cup {"trigger"} ELSE overlap
    /\ UNCHANGED <<domRoots, rootLayers, zoomRoot>>
    /\ UNCHANGED <<cropVars, twinVars, pwVars, renderVars, cacheVars, maskVars>>

\* the parse is back: render() goes on to renderSpiralAdvanced (main.js
\* lines 383-440), which runs to its await (renderSpiralAdvanced.js lines
\* 197-226): the SVG is emptied, a root group is added and the zoom is
\* attached to it
ParseDone(r) ==
    /\ pc = "app"
    /\ rPc[r] = "parse"
    /\ rPc' = [rPc EXCEPT ![r] = "mask"]
    /\ statusLine' = [by |-> r, text |-> "rendering"]
    /\ domRoots' = svgAfterClear(domRoots, r)
    /\ rootLayers' = [rootLayers EXCEPT ![r] = 0]
    /\ zoomRoot' = r
    /\ overlap' = IF \E o \in RequestIds : rPc[o] = "mask"
                  THEN overlap \cup {"enter"} ELSE overlap
    /\ UNCHANGED <<cropVars, twinVars, pwVars, renderVars, cacheVars, maskVars>>

\* the mask is back: the words are placed and drawn in a new layer of the
\* root group this call made (renderSpiralAdvanced.js lines 228-507), then
\* render() sets the final status (main.js lines 462-467)
MaskDone(r) ==
    /\ pc = "app"
    /\ rPc[r] = "mask"
    /\ rPc' = [rPc EXCEPT ![r] = "done"]
    /\ rootLayers' = [rootLayers EXCEPT ![r] = rootLayers[r] + 1]
    /\ statusLine' = [by |-> r, text |-> "done"]
    /\ UNCHANGED <<domRoots, zoomRoot, overlap>>
    /\ UNCHANGED <<cropVars, twinVars, pwVars, renderVars, cacheVars, maskVars>>

\* placeWordsAdvanced is called on its own
InitPlace ==
    /\ pwPc = "entry"
    /\ pwOpts \in PlaceCalls \cup PaddedCalls \cup ShortSpiralCalls
    /\ pwWords \in CallWords
    /\ pwI = 0
    /\ pwOccupied = <<>>
    /\ pwPlacements = <<>>
    /\ pwResult = NoResult
    /\ spriteRequests = 0
    /\ candidatesTested = 0
    /\ pc = "none"
    /\ req = NoRequest
    /\ sorted = <<>>
    /\ i = 0
    /\ attempt = 0
    /\ forceSize = minAttemptSize
    /\ forceAttempt = 0
    /\ occupiedMask = <<>>
    /\ placements = <<>>
    /\ coverage = ZeroCoverage
    /\ duplicateCount = 0
    /\ phase1Coverage = ZeroCoverage
    /\ omitted = {}
    /\ cacheIdle
    /\ maskIdle
    /\ extraIdle

\* a render is requested
InitRender ==
    /\ req \in Requests
    /\ pc = "start"
    /\ sorted = <<>>
    /\ i = 0
    /\ attempt = 0
    /\ forceSize = minAttemptSize
    /\ forceAttempt = 0
    /\ occupiedMask = <<>>
    /\ placements = <<>>
    /\ coverage = ZeroCoverage
    /\ duplicateCount = 0
    /\ phase1Coverage = ZeroCoverage
    /\ omitted = {}
    /\ pwIdle
    /\ cacheIdle
    /\ maskIdle
    /\ extraIdle

\* the sprite cache is used on its own
InitCache ==
    /\ pc = "cache"
    /\ req = NoRequest
    /\ sorted = <<>>
    /\ i = 0
    /\ attempt = 0
    /\ forceSize = minAttemptSize
    /\ forceAttempt = 0
    /\ occupiedMask = <<>>
    /\ placements = <<>>
    /\ coverage = ZeroCoverage
    /\ duplicateCount = 0
    /\ phase1Coverage = ZeroCoverage
    /\ omitted = {}
    /\ pwIdle
    /\ cacheIdle
    /\ maskIdle
    /\ extraIdle

\* an image mask is loaded on its own
InitMask ==
    /\ pc = "mask"
    /\ imgData \in Images
    /\ shapeParams \in ShapeParams
    /\ rawMask = <<>>
    /\ imageMask = <<>>
    /\ req = NoRequest
    /\ sorted = <<>>
    /\ i = 0
    /\ attempt = 0
    /\ forceSize = minAttemptSize
    /\ forceAttempt = 0
    /\ occupiedMask = <<>>
    /\ placements = <<>>
    /\ coverage = ZeroCoverage
    /\ duplicateCount = 0
    /\ phase1Coverage = ZeroCoverage
    /\ omitted = {}
    /\ pwIdle
    /\ cacheIdle
    /\ extraIdle

\* the locals of a render that was never started
renderIdle ==
    /\ req = NoRequest
    /\ sorted = <<>>
    /\ i = 0
    /\ attempt = 0
    /\ forceSize = minAttemptSize
    /\ forceAttempt = 0
    /\ occupiedMask = <<>>
    /\ placements = <<>>
    /\ coverage = ZeroCoverage
    /\ duplicateCount = 0
    /\ phase1Coverage = ZeroCoverage
    /\ omitted = {}

\* a raster buffer is cropped on its own
InitCrop ==
    /\ pc = "crop"
    /\ inkBuf \in SUBSET BufCells
    /\ cropPadding \in {0, 1}
    /\ cropped = NoSprite
    /\ twinIdle
    /\ appIdle
    /\ renderIdle
    /\ pwIdle
    /\ cacheIdle
    /\ maskIdle

\* a call without jitter is run twice
InitTwin ==
    /\ pc = "twin"
    /\ twinReq \in TwinRequests
    /\ twinOpts \in PaddedCalls
    /\ twinCaches \in TwinCacheStates(twinOpts) \X TwinCacheStates(twinOpts)
    /\ twinOut = <<>>
    /\ cropIdle
    /\ appIdle
    /\ renderIdle
    /\ pwIdle
    /\ cacheIdle
    /\ maskIdle

\* the page with no request made yet
InitApp ==
    /\ pc = "app"
    /\ appIdle
    /\ cropIdle
    /\ twinIdle
    /\ renderIdle
    /\ pwIdle
    /\ cacheIdle
    /\ maskIdle

\* the positions of a run that is no render
Standalone == {"none", "cache", "mask", "masked", "crop", "cropped", "twin", "twinned", "app"}

Init == InitRender \/ InitPlace \/ InitCache \/ InitMask \/ InitCrop \/ InitTwin \/ InitApp

Next ==
    \/ PlaceThrow
    \/ RenderStart
    \/ BeginWord
    \/ ShrinkAttempt
    \/ ForceAttempt
    \/ MeasureCoverage
    \/ FillAttempt
    \/ PlaceEnter
    \/ PlaceLoop
    \/ PlaceReturn
    \/ PlainResult
    \/ Draw
    \/ CacheGet
    \/ CacheSet
    \/ GetWordSprite
    \/ LoadImageMask
    \/ CropSprite
    \/ RunTwice
    \/ \E r \in RequestIds : Trigger(r)
    \/ \E r \in RequestIds : ParseDone(r)
    \/ \E r \in RequestIds : MaskDone(r)

Spec == Init /\ [][Next]_vars

\* An adaptive render on its own.  After its await the render is one
\* synchronous run of the code: once started, each of its steps is taken.
AdaptiveInit == InitRender /\ req.adaptive

AdaptiveNext ==
    \/ RenderStart
    \/ BeginWord
    \/ ShrinkAttempt
    \/ ForceAttempt
    \/ MeasureCoverage
    \/ FillAttempt
    \/ Draw

\* Weak fairness of every step.  The three steps that call placeWordsAdvanced
\* are enabled exactly at their position, which stands for ENABLED in their
\* fairness condition.
FairSpec ==
    /\ AdaptiveInit
    /\ [][AdaptiveNext]_vars
    /\ WF_vars(RenderStart)
    /\ WF_vars(BeginWord)
    /\ WF_vars(MeasureCoverage)
    /\ WF_vars(Draw)
    /\ ([]<>(pc # "shrink") \/ []<><<ShrinkAttempt>>_vars)
    /\ ([]<>(pc # "force") \/ []<><<ForceAttempt>>_vars)
    /\ ([]<>(pc # "fill") \/ []<><<FillAttempt>>_vars)

(***************************************************************************)
(* Properties.                                                             *)
(***************************************************************************)
\* the canvas pixels <<x, y>> under the ink pixels of a placement
InkCells(p) ==
    Bind(getWordSprite(p.text, p.fontSize, p.padding), LAMBDA sprite :
      { <<p.x + c[1], p.y + c[2]>> : c \in SpriteInk(sprite) })

NoOverlap(ps) ==
    \A a \in 1..Len(ps) : \A b \in 1..Len(ps) :
        a < b => InkCells(ps[a]) \cap InkCells(ps[b]) = {}

Ones(m) == {k \in 1..Len(m) : m[k] = 1}

HasPhase(ph) ==
    req.adaptive /\ \E k \in 1..Len(placements) : placements[k].phase = ph

\* the occupancy grid of the call has width * height cells: no grid was
\* handed over, or one of that length
GridSized ==
    \/ ~pwOpts.hasExisting
    \/ Len(pwOpts.existingOccupiedMask) = Max(1, pwOpts.width) * Max(1, pwOpts.height)

C2_Containment ==
    /\ \A k \in 1..Len(placements) : \A c \in InkCells(placements[k]) :
         Cell(req.mask, c[2] * CanvasW + c[1]) = 1
    /\ \A k \in 1..Len(pwPlacements) : \A c \in InkCells(pwPlacements[k]) :
         pwOpts.hasMask =>
           Cell(pwOpts.allowedMask, c[2] * ReadOpts(pwOpts).width + c[1]) = 1

\* an inked word and an inked duplicate stand in a mask that forbids cells
C2_Witness ==
    /\ pc = "done"
    /\ \E k \in 1..Len(req.mask) : req.mask[k] = 0
    /\ \E a \in 1..Len(placements) : \E b \in 1..Len(placements) :
         /\ a # b
         /\ InkCells(placements[a]) # {}
         /\ InkCells(placements[b]) # {}

\* C3 (as stated): with adaptive sizing and a mask that has an allowed pixel,
\* once Phase 1 is over every word of the normalised list has a placement.
C3_EveryWordPlaced ==
    ( /\ req.adaptive
      /\ \E k \in 1..Len(req.mask) : req.mask[k] = 1
      /\ pc \in {"fill", "draw", "done"} )
    => \A idx \in 0..(Len(sorted) - 1) :
         \E k \in 1..Len(placements) : placements[k].originalIndex = idx

\* C4 (as stated): a word the force sub-pass leaves out found no free cell
\* (allowed and not occupied) at the moment it was left out.
C4_OmittedOnlyWhenSaturated == \A o \in omitted : o.free = 0

\* C5: the coverage after the fill is at least the coverage measured right
\* after Phase 1, and no fill iteration lowers the coverage.
C5_MonotonicCoverage ==
    /\ [](pc \in {"fill", "draw", "done"} /\ req.adaptive
            => RatioGE(coverage, phase1Coverage))
    /\ [][pc = "fill" => RatioGE(coverage', coverage)]_vars

\* the fill has raised the coverage
C5_Witness ==
    /\ pc = "done"
    /\ HasPhase("fill")
    /\ RatioLess(phase1Coverage, coverage)

\* C6 (as stated): of two words placed by the shrink loop, the one of the
\* greater nominal size has the font size that is greater or equal.
C6_RankPreserved ==
    req.adaptive =>
      \A a \in 1..Len(placements) : \A b \in 1..Len(placements) :
        ( /\ placements[a].phase = "shrink"
          /\ placements[b].phase = "shrink"
          /\ sorted[placements[a].originalIndex + 1].size
               > sorted[placements[b].originalIndex + 1].size )
        => placements[a].fontSize >= placements[b].fontSize

\* C7: a cell of an occupancy grid that is 1 is 1 after every step, in the
\* grid of a placeWordsAdvanced call and in the controller's grid.
C7_OccupancyMonotone ==
    [][ /\ \A k \in Ones(occupiedMask) : Cell(occupiedMask', k - 1) = 1
        /\ \A k \in Ones(pwOccupied) : Cell(pwOccupied', k - 1) = 1 ]_vars

\* a call has stamped a second word, and the controller has merged a forced
\* word into a grid that held one
C7_Witness ==
    \/ /\ pwPc = "loop"
       /\ Len(pwPlacements) >= 2
       /\ Cardinality(Ones(pwOccupied)) > Cardinality(InkCells(pwPlacements[2]))
    \/ /\ req.adaptive
       /\ Len(placements) >= 2
       /\ placements[2].phase = "force"
       /\ Cardinality(Ones(occupiedMask)) > Cardinality(InkCells(placements[2]))

\* C8: a call whose allowedMask length differs from width * height never gets
\* past its entry: it throws with no sprite requested, no candidate tested,
\* no placement recorded and nothing returned.
C8_MaskDimensionMismatch ==
    ( pwPc # "idle"
      /\ pwOpts.hasMask
      /\ Len(pwOpts.allowedMask) # Max(1, pwOpts.width) * Max(1, pwOpts.height) )
    => /\ pwPc \in {"entry", "thrown"}
       /\ spriteRequests = 0
       /\ candidatesTested = 0
       /\ pwPlacements = <<>>
       /\ pwResult = NoResult

\* a call with words and a mask one cell too long has thrown
C8_Witness ==
    /\ pwPc = "thrown"
    /\ Len(pwWords) > 0
    /\ Len(pwOpts.allowedMask) > Max(1, pwOpts.width) * Max(1, pwOpts.height)

\* C9 (as stated): a call handed an existingOccupiedMask whose length differs
\* from width * height is rejected: it never gets past its entry.
C9_ExistingMaskRejected ==
    ( pwOpts.hasExisting
      /\ Len(pwOpts.existingOccupiedMask)
           # Max(1, pwOpts.width) * Max(1, pwOpts.height) )
    => pwPc \in {"entry", "thrown"}

\* C10 (as stated): a render whose allowed mask has no cell equal to 1 does
\* not complete as a normal render, and it has no placement.
C10_EmptyAllowedRegion ==
    ( pc \notin Standalone /\ \A k \in 1..Len(req.mask) : req.mask[k] = 0 )
    => pc # "done" /\ placements = <<>>

\* the sprite of word w is wider or taller than the canvas of the call
Oversized(w, o) ==
    Bind(getWordSprite(w.text, Max(1, w.size), ReadOpts(o).wordPadding), LAMBDA sprite :
      sprite.width > ReadOpts(o).width \/ sprite.height > ReadOpts(o).height)

\* C11: the iteration of a word whose sprite is wider or taller than the
\* canvas tests no candidate, records no placement, leaves the occupancy grid
\* as it was and goes on to the next word without leaving the loop.
C11_OversizedRejected ==
    [][ ( /\ pwPc = "loop"
          /\ pwI < Len(pwWords)
          /\ Oversized(pwWords[pwI + 1], pwOpts) )
        => /\ pwPc' = "loop"
           /\ pwI' = pwI + 1
           /\ candidatesTested' = candidatesTested
           /\ pwPlacements' = pwPlacements
           /\ pwOccupied' = pwOccupied ]_vars

\* the first word was oversized and a word after it has been placed
C11_Witness ==
    /\ pwPc = "returned"
    /\ GridSized
    /\ Len(pwWords) >= 2
    /\ Oversized(pwWords[1], pwOpts)
    /\ Len(pwResult.placements) = 1
    /\ pwResult.placements[1].text = pwWords[2].text
    /\ pwResult.placements[1].fontSize = pwWords[2].size

\* C12: a render of an empty word list never enters the shrink loop or the
\* force sub-pass, finds the fill loop closed (no duplicate is attempted),
\* records no placement and throws nothing, with adaptive sizing or without.
C12_EmptyWordList ==
    ( pc \notin Standalone /\ req.words = <<>> )
    => /\ placements = <<>>
       /\ pwPlacements = <<>>
       /\ pwPc # "thrown"
       /\ pc \notin {"shrink", "force"}
       /\ pc = "fill" =>
             ~(RatioLess(coverage, req.targetCoverage) /\ duplicateCount < maxDuplicates)
       /\ pc = "done" /\ ~req.adaptive =>
             pwResult.stats.placedCount = 0 /\ pwResult.stats.totalCount = 0

\* an adaptive render of no words is over, below its target coverage
C12_Witness ==
    /\ pc = "done"
    /\ req.words = <<>>
    /\ req.adaptive
    /\ phase1Coverage.allowedArea > 0
    /\ RatioLess(coverage, req.targetCoverage)

\* the canvas indices cp under the ink of placement p on a canvas width wide
InkIndices(p, width) == {c[2] * width + c[1] : c \in InkCells(p)}

\* C13: a call handed an existingOccupiedMask works on a copy of it: every
\* seeded bit is in the call's grid and in the grid it returns, no placement
\* of the call has ink on a seeded bit, and the arguments (the caller's
\* existingOccupiedMask and the allowedMask among them) stay as they were
\* while the call runs.  The controller's chained calls likewise put no new
\* ink on a cell its grid already held.
C13_SeededOccupancy ==
    /\ []( pwOpts.hasExisting /\ pwPc \in {"loop", "returned"}
            => /\ \A k \in Ones(pwOpts.existingOccupiedMask) : Cell(pwOccupied, k - 1) = 1
               /\ pwPc = "returned" =>
                     \A k \in Ones(pwOpts.existingOccupiedMask) :
                         Cell(pwResult.occupiedMask, k - 1) = 1
               /\ \A n \in 1..Len(pwPlacements) :
                     \A cp \in InkIndices(pwPlacements[n], ReadOpts(pwOpts).width) :
                         Cell(pwOpts.existingOccupiedMask, cp) # 1 )
    /\ [][ (pwPc \in {"entry", "loop"}) => (pwOpts' = pwOpts) ]_vars
    /\ [][ (pc \in {"shrink", "force", "fill"})
            => ( /\ req' = req
                 /\ \A n \in (Len(placements) + 1)..Len(placements') :
                       \A cp \in InkIndices(placements'[n], CanvasW) :
                           Cell(occupiedMask, cp) # 1 ) ]_vars

\* a call seeded with an occupied cell has returned with a placement
C13_Witness ==
    /\ pwPc = "returned"
    /\ pwOpts.hasExisting
    /\ GridSized
    /\ Ones(pwOpts.existingOccupiedMask) # {}
    /\ Len(pwResult.placements) >= 1
    /\ Cardinality(Ones(pwResult.occupiedMask))
          > Cardinality(Ones(pwOpts.existingOccupiedMask))

\* the placements ps are, in order, placements of words of ws taken in order
IsSubsequence(ps, ws) ==
    \E f \in [1..Len(ps) -> 1..Len(ws)] :
        /\ \A a \in 1..Len(ps) : \A b \in 1..Len(ps) : a < b => f[a] < f[b]
        /\ \A a \in 1..Len(ps) :
              /\ ps[a].text = ws[f[a]].text
              /\ ps[a].fontSize = Max(1, ws[f[a]].size)

\* C14: placeWordsAdvanced takes the words in the order given, one per
\* iteration; the word of an iteration is tested against the grid left by the
\* words accepted before it, and is appended to the placements or left out;
\* the placements, during the call and as returned, are a subsequence of the
\* words considered so far.
C14_ProcessingOrder ==
    /\ []( pwPc \in {"loop", "returned"} =>
              IsSubsequence(pwPlacements, SubSeq(pwWords, 1, pwI)) )
    /\ []( pwPc = "returned" => pwResult.placements = pwPlacements /\ pwI = Len(pwWords) )
    /\ []( pwPc \in {"loop", "returned"} /\ GridSized =>
              \A n \in 1..Len(pwPlacements) :
                  \A cp \in InkIndices(pwPlacements[n], ReadOpts(pwOpts).width) :
                      Cell(pwOccupied, cp) = 1 )
    /\ [][ (pwPc = "loop" /\ pwI < Len(pwWords))
            => ( /\ pwI' = pwI + 1
                 /\ \/ pwPlacements' = pwPlacements
                    \/ /\ Len(pwPlacements') = Len(pwPlacements) + 1
                       /\ SubSeq(pwPlacements', 1, Len(pwPlacements)) = pwPlacements
                       /\ pwPlacements'[Len(pwPlacements')].text = pwWords[pwI + 1].text
                       /\ \A cp \in InkIndices(pwPlacements'[Len(pwPlacements')],
                                                ReadOpts(pwOpts).width) :
                             Cell(pwOccupied, cp) # 1 ) ]_vars

\* a call has placed its first and third word and left the second out
C14_Witness ==
    /\ pwPc = "returned"
    /\ Len(pwWords) >= 3
    /\ Len(pwResult.placements) = 2
    /\ pwResult.placements[1].text = pwWords[1].text
    /\ pwResult.placements[1].fontSize = pwWords[1].size
    /\ pwResult.placements[2].text = pwWords[3].text
    /\ pwResult.placements[2].fontSize = pwWords[3].size
    /\ InkCells(pwResult.placements[1]) # {}
    /\ InkCells(pwResult.placements[2]) # {}

\* C15: in the result of a call placedCount is the number of placements
\* returned, totalCount the number of words handed in and placedCount <=
\* totalCount; every word that cannot be placed (its sprite exceeds the
\* canvas) is missing from placedCount, and only a mask of the wrong length
\* makes the call throw.
C15_StatsAggregation ==
    /\ pwPc = "returned" =>
          /\ pwResult.stats.placedCount = Len(pwResult.placements)
          /\ pwResult.stats.totalCount = Len(pwWords)
          /\ pwResult.stats.placedCount <= pwResult.stats.totalCount
          /\ pwResult.stats.placedCount + Cardinality({k \in 1..Len(pwWords) :
                                                        Oversized(pwWords[k], pwOpts)})
                <= pwResult.stats.totalCount
    /\ pwPc = "thrown" => MaskMismatch(pwOpts)

\* a call has returned with one word placed and another one not
C15_Witness ==
    /\ pwPc = "returned"
    /\ pwResult.stats.placedCount >= 1
    /\ pwResult.stats.placedCount < pwResult.stats.totalCount
    /\ \E k \in 1..Len(pwWords) : Oversized(pwWords[k], pwOpts)

\* c is the coverage of the grid occ under the mask (if any) of a canvas of
\* width * height cells: the allowed cells, those of them that are occupied,
\* and their ratio, which is 0 when nothing is allowed
IsCoverageOf(c, occ, hasMask, mask, width, height) ==
    /\ c.allowedArea = IF hasMask THEN Cardinality(Ones(mask)) ELSE width * height
    /\ c.occupiedArea = IF hasMask
                        THEN Cardinality(Ones(mask) \cap Ones(occ))
                        ELSE Cardinality(Ones(occ))
    /\ IF c.allowedArea = 0
       THEN c.num = 0 /\ c.den = 1
       ELSE c.num = c.occupiedArea /\ c.den = c.allowedArea
    /\ (hasMask \/ Len(occ) <= width * height) =>
          /\ c.occupiedArea <= c.allowedArea
          /\ 0 <= c.num
          /\ c.num <= c.den

C17_DuplicateMarking ==
    req.adaptive =>
      /\ \A k \in 1..Len(placements) :
            IF placements[k].phase = "fill"
            THEN placements[k].originalIndex = -1
            ELSE /\ placements[k].phase \in {"shrink", "force"}
                 /\ placements[k].originalIndex \in 0..(Len(sorted) - 1)
                 /\ placements[k].text = sorted[placements[k].originalIndex + 1].text
      /\ \A a \in 1..Len(placements) : \A b \in 1..Len(placements) :
            ( a # b /\ placements[a].originalIndex >= 0 )
            => placements[a].originalIndex # placements[b].originalIndex

\* the second word of the list and a duplicate are both placed
C17_Witness ==
    /\ req.adaptive
    /\ pc = "done"
    /\ \E a \in 1..Len(placements) : \E b \in 1..Len(placements) :
          /\ placements[a].originalIndex = 1
          /\ placements[b].originalIndex = -1
          /\ placements[b].phase = "fill"

\* the duplicates among the placements
Duplicates == {k \in 1..Len(placements) : placements[k].originalIndex = -1}

KeysOf(map) == {map[n].key : n \in 1..Len(map)}

\* C19: the cache never holds more than its limit of entries, nor a key
\* twice; an operation removes an entry only when the cache is full and a new
\* key comes in, and the entry removed is the one whose last use, by a hit of
\* get or by a set, lies furthest back.
C19_LruPolicy ==
    /\ []( /\ Len(cacheMap) <= CacheLimit
           /\ Cardinality(KeysOf(cacheMap)) = Len(cacheMap) )
    /\ [][ \A k \in KeysOf(cacheMap) \ KeysOf(cacheMap') :
              /\ Len(cacheMap) = CacheLimit
              /\ Len(cacheMap') = CacheLimit
              /\ KeysOf(cacheMap') \ KeysOf(cacheMap) # {}
              /\ KeysOf(cacheMap) \ KeysOf(cacheMap') = {k}
              /\ \A j \in KeysOf(cacheMap) : lastUsed[k] <= lastUsed[j] ]_vars

\* an entry has been removed from the full cache while an entry made before
\* the removed one's last use is still held: a later hit or set saved it
C19_Witness ==
    /\ Len(cacheMap) = CacheLimit
    /\ \E k \in CacheKeys \ KeysOf(cacheMap) :
          /\ lastUsed[k] > 0
          /\ \E n \in 1..Len(cacheMap) :
                /\ cacheMap[n].value.id < lastUsed[k]
                /\ lastUsed[k] < lastUsed[cacheMap[n].key]

\* the parameter tuple of a getWordSprite call
KeyTuple(p) ==
    <<p.text, p.fontFamily, p.fontWeight, p.fontStyle, p.fontSize, p.rotate,
      p.padding, p.devicePixelRatio>>

\* C20 (as stated): a getWordSprite call gets a sprite out of the cache only
\* if the sprite was made for the same parameter tuple (text, fontFamily,
\* fontWeight, fontStyle, fontSize, rotation, padding, pixelDensity).
C20_MemoizedByTuple ==
    lastReturn.called => KeyTuple(lastReturn.sprite.madeFor) = KeyTuple(lastReturn.params)

\* what a placement says of its sprite
SpriteOf(q) == [f \in {"text", "w", "h", "fontSize", "padding"} |-> q[f]]

\* the placements recorded so far, by a call or by the controller
AllPlacements ==
    {SpriteOf(pwPlacements[k]) : k \in 1..Len(pwPlacements)} \cup
    {SpriteOf(placements[k]) : k \in 1..Len(placements)}

\* C21 (as stated): the sprite of a text that leaves no ink is 1 wide and 1
\* high, whatever the padding, and its mask has no ink pixel.
C21_ZeroInkSprite ==
    \A p \in AllPlacements :
        Bind(getWordSprite(p.text, p.fontSize, p.padding), LAMBDA sprite :
          SpriteInk(sprite) = {} =>
            /\ sprite.width = 1
            /\ sprite.height = 1
            /\ p.w = 1
            /\ p.h = 1)

\* C22 (as stated): loadImageMask classifies a fully transparent pixel
\* (alpha 0) as outside, with the alpha selection and with the luminance
\* selection, whatever the threshold.
C22_TransparentOutside ==
    pc = "masked" =>
      \A p \in 1..Len(imgData) : imgData[p].a = 0 => rawMask[p] = 0

\* the sequence ws is in order of size, largest first
SizeSorted(ws) == \A k \in 1..(Len(ws) - 1) : ws[k].size >= ws[k + 1].size

\* the placements ps are, in order, words of ws at the size they came with
PlacedAtInputSize(ps, ws) ==
    \E f \in [1..Len(ps) -> 1..Len(ws)] :
        /\ \A a \in 1..Len(ps) : \A b \in 1..Len(ps) : a < b => f[a] < f[b]
        /\ \A a \in 1..Len(ps) :
              /\ ps[a].text = ws[f[a]].text
              /\ ps[a].fontSize = ws[f[a]].size

C24_PaddingSeparates ==
    ReadOpts(pwOpts).wordPadding >= 1 =>
      \A a \in 1..Len(pwPlacements) : \A b \in 1..Len(pwPlacements) :
        a # b =>
          \A ca \in InkCells(pwPlacements[a]) : \A cb \in InkCells(pwPlacements[b]) :
            \/ Abs(ca[1] - cb[1]) > ReadOpts(pwOpts).wordPadding
            \/ Abs(ca[2] - cb[2]) > ReadOpts(pwOpts).wordPadding

\* the sprite of the word the call is about to place
CurrentSprite ==
    getWordSprite(pwWords[pwI + 1].text, Max(1, pwWords[pwI + 1].size),
                  ReadOpts(pwOpts).wordPadding)

\* the canvas indices under the cells of the sprite at (x, y) that hold no ink
BlankIndices(sprite, x, y, canvasW) ==
    {(y + c[2]) * canvasW + (x + c[1]) :
        c \in ((0..(sprite.width - 1)) \X (0..(sprite.height - 1))) \ SpriteInk(sprite)}

\* the grid m with the cells cps set to v
Overlaid(m, cps, v) == [k \in 1..Len(m) |-> IF (k - 1) \in cps THEN v ELSE m[k]]

\* the sprite at (x, y) lies within the canvas and each of its ink pixels is on
\* a cell that is allowed (when there is a mask) and not occupied
Acceptable(sprite, x, y, ro, occ) ==
    /\ x >= 0
    /\ y >= 0
    /\ x + sprite.width <= ro.width
    /\ y + sprite.height <= ro.height
    /\ \A c \in SpriteInk(sprite) :
          /\ ro.hasMask => Cell(ro.allowedMask, (y + c[2]) * ro.width + (x + c[1])) = 1
          /\ Cell(occ, (y + c[2]) * ro.width + (x + c[1])) # 1

\* C25: for the sprite of the word at hand and the grid of the call,
\* canPlaceAt accepts a top-left (x, y), on the canvas or just off it,
\* exactly when the footprint lies within the canvas and every ink pixel is
\* on an allowed and unoccupied cell; occupying or forbidding the cells under
\* the sprite's blank pixels changes nothing.
C25_AcceptanceTest ==
    ( pwPc = "loop" /\ pwI < Len(pwWords) ) =>
      Bind(CurrentSprite, LAMBDA sprite :
      Bind(ReadOpts(pwOpts), LAMBDA ro :
        \A x \in (-1)..ro.width : \A y \in (-1)..ro.height :
          /\ canPlaceAt(sprite, x, y, ro.width, ro.height,
                        ro.hasMask, ro.allowedMask, pwOccupied)
               <=> Acceptable(sprite, x, y, ro, pwOccupied)
          /\ insideCanvasRect(x, y, sprite.width, sprite.height, ro.width, ro.height) =>
               ( canPlaceAt(sprite, x, y, ro.width, ro.height,
                            ro.hasMask, ro.allowedMask, pwOccupied)
                 <=> canPlaceAt(sprite, x, y, ro.width, ro.height, ro.hasMask,
                        Overlaid(ro.allowedMask,
                                 BlankIndices(sprite, x, y, ro.width), 0),
                        Overlaid(pwOccupied,
                                 BlankIndices(sprite, x, y, ro.width), 1)) )))

\* a word was accepted with a blank pixel of its sprite over the ink of the
\* word before it
C25_Witness ==
    /\ Len(pwPlacements) = 2
    /\ \E c \in InkCells(pwPlacements[1]) :
          /\ c[1] \in pwPlacements[2].x..(pwPlacements[2].x + pwPlacements[2].w - 1)
          /\ c[2] \in pwPlacements[2].y..(pwPlacements[2].y + pwPlacements[2].h - 1)
    /\ InkCells(pwPlacements[2]) # {}

\* the grid after is the grid before with the cells cps set to 1
StampedWith(after, before, cps) ==
    /\ Len(after) = Len(before)
    /\ \A k \in 1..Len(before) :
          after[k] = IF (k - 1) \in cps THEN 1 ELSE before[k]

SpiralLength(ro) == ((ro.spiralTurns * TwoPi) \div tStep) + 1

\* C27: the iteration of a word tests at most maxTriesPerWord candidates and
\* none at an angle beyond spiralTurns * 2 pi; a search that finds no place
\* has tested every candidate up to the first of the two caps, those off the
\* canvas counted like the others, and the loop then goes on to the next word.
C27_SearchCap ==
    [][ (pwPc = "loop" /\ pwI < Len(pwWords))
        => ( /\ candidatesTested' >= candidatesTested
             /\ candidatesTested' - candidatesTested <= ReadOpts(pwOpts).maxTriesPerWord
             /\ candidatesTested' - candidatesTested <= SpiralLength(ReadOpts(pwOpts))
             /\ (candidatesTested' - candidatesTested - 1) * tStep
                   <= ReadOpts(pwOpts).spiralTurns * TwoPi
             /\ ( pwPlacements' = pwPlacements /\ ~Oversized(pwWords[pwI + 1], pwOpts) )
                   => candidatesTested' - candidatesTested
                         = Min(ReadOpts(pwOpts).maxTriesPerWord,
                               SpiralLength(ReadOpts(pwOpts)))
             /\ pwI' = pwI + 1 ) ]_vars

\* the first word was placed at the first candidate and the search for the
\* second ended at the end of the spiral's single turn, with tries to spare
C27_Witness ==
    /\ pwPc = "loop"
    /\ pwI = 2
    /\ Len(pwPlacements) = 1
    /\ ~Oversized(pwWords[2], pwOpts)
    /\ SpiralLength(ReadOpts(pwOpts)) < ReadOpts(pwOpts).maxTriesPerWord
    /\ candidatesTested = 1 + SpiralLength(ReadOpts(pwOpts))

\* C28 (as stated): in Phase 1 the first attempt for a word is a shrink
\* attempt at its compressed nominal size; the force sub-pass is entered only
\* after a shrink attempt has failed and the next size is below the floor; a
\* success ends the word, which then has exactly one placement; a word given
\* up by the force sub-pass has none.
C28_RetryStateMachine ==
    /\ [][ (pc = "word" /\ i < Len(sorted))
            => (pc' = "shrink" /\ attempt' = 0 /\ i' = i) ]_vars
    /\ [][ (pc = "shrink" /\ pc' = "force")
            => ( /\ placements' = placements
                 /\ attempt' = attempt + 1
                 /\ ~AttemptSizeOK(sorted[i + 1].size, attempt') ) ]_vars
    /\ [][ (pc \in {"shrink", "force"} /\ Len(placements') > Len(placements))
            => ( /\ pc' = "word"
                 /\ i' = i + 1
                 /\ Len(placements') = Len(placements) + 1
                 /\ placements'[Len(placements')].originalIndex = i ) ]_vars
    /\ []( (req.adaptive /\ pc \in {"word", "shrink", "force"})
            => \A idx \in 0..(i - 1) :
                  Cardinality({k \in 1..Len(placements) :
                                  placements[k].originalIndex = idx})
                     = IF \E o \in omitted : o.index = idx THEN 0 ELSE 1 )

\* the size of the force attempt after n failed ones: 4, 3, 2, 2, ...
ForceSizeAfter(n) == IF n = 0 THEN 4 ELSE IF n = 1 THEN 3 ELSE 2

\* C29: a placement of the shrink loop has a font size of 4 or more; a
\* placement of the force sub-pass has a font size from 2 to 4, the size of
\* the attempt that made it; the sizes the force sub-pass tries are 4, 3, 2,
\* 2, ..., never rising and never below 2.
C29_SizeFloors ==
    /\ []( req.adaptive =>
              \A k \in 1..Len(placements) :
                  /\ placements[k].phase = "shrink" => placements[k].fontSize >= 4
                  /\ placements[k].phase = "force" =>
                        placements[k].fontSize \in 2..4 )
    /\ []( pc = "force" =>
              /\ forceAttempt \in 0..9
              /\ forceSize = ForceSizeAfter(forceAttempt) )
    /\ [][ (pc = "force")
            => ( /\ forceSize' <= forceSize
                 /\ forceSize' >= 2
                 /\ Len(placements') > Len(placements) =>
                       /\ placements'[Len(placements')].phase = "force"
                       /\ placements'[Len(placements')].fontSize = forceSize ) ]_vars
    /\ [][ (pc = "shrink" /\ Len(placements') > Len(placements))
            => ( /\ placements'[Len(placements')].phase = "shrink"
                 /\ placements'[Len(placements')].fontSize
                       = SizedWordSize(sorted[i + 1].size, attempt, sorted,
                                       req.nonlinearPower10) ) ]_vars

\* the force sub-pass has placed a word below size 4, after a word the
\* shrink loop placed
C29_Witness ==
    /\ req.adaptive
    /\ \E a \in 1..Len(placements) : \E b \in 1..Len(placements) :
          /\ placements[a].phase = "shrink"
          /\ placements[b].phase = "force"
          /\ placements[b].fontSize < 4
          /\ InkCells(placements[b]) # {}

\* C30 (as stated): the fill loop ends only when the coverage has reached
\* the target, when the duplicate budget is used up, or when no free
\* rectangle at least 6 wide is found.
C30_FillLoopExit ==
    [][ (pc = "fill" /\ pc' # "fill")
        => \/ RatioGE(coverage, req.targetCoverage)
           \/ duplicateCount >= maxDuplicates
           \/ Bind(findWidestAvailableSpace(occupiedMask, TRUE, req.mask,
                                            CanvasW, CanvasH), LAMBDA widestSpace :
                ~widestSpace.found \/ widestSpace.width < 6) ]_vars

\* the horizontal runs <<y, x, w>> of free cells of the grid of the render
\* (any run, not only the maximal ones)
FreeRuns ==
    {g \in (0..(CanvasH - 1)) \X (0..(CanvasW - 1)) \X (1..CanvasW) :
        /\ g[2] + g[3] <= CanvasW
        /\ \A dx \in 0..(g[3] - 1) :
              FreeCell(occupiedMask, TRUE, req.mask, g[1] * CanvasW + g[2] + dx)}

\* C31: in the fill loop findWidestAvailableSpace finds nothing exactly when
\* no cell is allowed and unoccupied; otherwise its rectangle lies inside
\* the canvas, all its cells are free, its width is the length of the
\* longest horizontal run of free cells, it is the first such run in
\* top-to-bottom, left-to-right order, and its height is the largest number
\* of rows that are entirely free across that width.
C31_GapSearch ==
    pc = "fill" =>
      Bind(findWidestAvailableSpace(occupiedMask, TRUE, req.mask, CanvasW, CanvasH),
           LAMBDA s :
        Bind(FreeRuns, LAMBDA runs :
          /\ ~s.found <=> runs = {}
          /\ s.found =>
               /\ s.x >= 0 /\ s.y >= 0 /\ s.width >= 1 /\ s.height >= 1
               /\ s.x + s.width <= CanvasW
               /\ s.y + s.height <= CanvasH
               /\ \A dy \in 0..(s.height - 1) : <<s.y + dy, s.x, s.width>> \in runs
               /\ \A g \in runs :
                     /\ g[3] <= s.width
                     /\ g[3] = s.width =>
                           (s.y < g[1] \/ (s.y = g[1] /\ s.x <= g[2]))
               /\ \/ s.y + s.height = CanvasH
                  \/ <<s.y + s.height, s.x, s.width>> \notin runs))

\* the fill loop searches a grid that holds a duplicate and in which the
\* widest gap is narrower than the canvas, is more than one row high and
\* has a later run of the same width
C31_Witness ==
    /\ pc = "fill"
    /\ \E k \in 1..Len(placements) : placements[k].phase = "fill"
    /\ Bind(findWidestAvailableSpace(occupiedMask, TRUE, req.mask, CanvasW, CanvasH),
            LAMBDA s :
              /\ s.found
              /\ s.width < CanvasW
              /\ s.height > 1
              /\ \E g \in FreeRuns :
                    g[3] = s.width /\ (g[1] > s.y \/ g[2] > s.x))

\* the offsets <<dx, dy>> within Manhattan distance r
Within(r) == {d \in ((-r)..r) \X ((-r)..r) : Abs(d[1]) + Abs(d[2]) <= r}

\* the value of cell (x, y) of an ImgW x ImgH mask; FALSE outside the canvas
IsOne(mask, x, y) ==
    /\ x >= 0 /\ x < ImgW /\ y >= 0 /\ y < ImgH
    /\ mask[y * ImgW + x + 1] = 1

\* C32: after loadImageMask the padded mask is the morphology of the
\* classified mask.  Erosion by r >= 1 keeps a cell exactly when every cell
\* within Manhattan distance r is inside the canvas and 1 (cells within r of
\* the border are cleared, the result is a subset); dilation by r >= 1 sets
\* a cell exactly when some in-canvas cell within distance r is 1 (a
\* superset); radius 0 gives an equal copy; the classified mask itself is
\* what the classification returned.
C32_Morphology ==
    pc = "masked" =>
      LET sp == shapeParams.shapePadding
          r  == Abs(sp)
          Cells == (0..(ImgW - 1)) \X (0..(ImgH - 1))
      IN  /\ rawMask = ClassifyImage(imgData, shapeParams)
          /\ Len(imageMask) = Len(rawMask)
          /\ sp = 0 => imageMask = rawMask
          /\ sp > 0 =>
               \A c \in Cells :
                  /\ IsOne(imageMask, c[1], c[2])
                       <=> \A d \in Within(r) : IsOne(rawMask, c[1] + d[1], c[2] + d[2])
                  /\ IsOne(imageMask, c[1], c[2]) => IsOne(rawMask, c[1], c[2])
                  /\ (c[1] < r \/ c[2] < r \/ c[1] >= ImgW - r \/ c[2] >= ImgH - r)
                       => imageMask[c[2] * ImgW + c[1] + 1] = 0
          /\ sp < 0 =>
               \A c \in Cells :
                  /\ IsOne(imageMask, c[1], c[2])
                       <=> \E d \in Within(r) : IsOne(rawMask, c[1] + d[1], c[2] + d[2])
                  /\ IsOne(rawMask, c[1], c[2]) => IsOne(imageMask, c[1], c[2])
          /\ \A k \in 1..Len(imageMask) : imageMask[k] \in {0, 1}

\* a single inside pixel has been dilated by 1 into a plus shape that leaves
\* the corners of the image outside
C32_Witness ==
    /\ pc = "masked"
    /\ shapeParams.shapePadding = -1
    /\ Cardinality(Ones(rawMask)) = 1
    /\ Cardinality(Ones(imageMask)) = 5

\* the canvases of the size of the cropped sprite on which one cell is
\* occupied
OneCellGrids ==
    { [k \in 1..(cropped.width * cropped.height) |-> IF k = o THEN 1 ELSE 0] :
        o \in 1..(cropped.width * cropped.height) }

\* C33 (as stated): whatever the ink in the raster buffer, the cropped
\* sprite keeps every ink pixel, its ink box has exactly the padding in
\* non-ink pixels on each of the four sides, its bbox encloses every ink
\* pixel of its mask, and the scan of the bbox alone accepts a position
\* exactly when the scan of the whole sprite does.
C33_CropAndBbox ==
    pc = "cropped" =>
      Bind(SpriteInk(cropped), LAMBDA ink :
        LET padPx == Max(0, cropPadding)
            b == InkBox(ink)
        IN  /\ Cardinality(ink) = Cardinality(inkBuf)
            /\ ink # {} =>
                 /\ b[1] = padPx
                 /\ b[2] = padPx
                 /\ b[3] = cropped.width - 1 - padPx
                 /\ b[4] = cropped.height - 1 - padPx
            /\ \A c \in ink :
                 /\ c[1] \in cropped.bbox.x0..cropped.bbox.x1
                 /\ c[2] \in cropped.bbox.y0..cropped.bbox.y1
            /\ \A occ \in OneCellGrids :
                 canPlaceAtBbox(cropped, 0, 0, cropped.width, cropped.height,
                                FALSE, <<>>, occ)
                   <=> canPlaceAt(cropped, 0, 0, cropped.width, cropped.height,
                                  FALSE, <<>>, occ))

\* the whole pixels of the compressed nominal size of a word: the scaled
\* size of lines 293-300 at attemptSize = word.size, before the floor of 4
CompressedNominal(size, ws, nonlinearPower10) ==
    LET mn == minSize(ws)
        sizeRange == maxSize(ws) - mn
        q  == (size - mn) * sizeRange
    IN  IF sizeRange > 0 /\ nonlinearPower10 # 10
        THEN CHOOSE m \in 0..maxSize(ws) :
                /\ (m <= mn \/ (m - mn) * (m - mn) <= q)
                /\ ~(m + 1 <= mn \/ (m + 1 - mn) * (m + 1 - mn) <= q)
        ELSE size

\* C34 (as stated): no placement of Phase 1, by the shrink loop or by the
\* force sub-pass, has a font size above the compressed nominal size of its
\* word, words of a nominal size below 4 included.
C34_NeverEnlarges ==
    req.adaptive =>
      \A k \in 1..Len(placements) :
          placements[k].phase \in {"shrink", "force"} =>
             placements[k].fontSize
                <= CompressedNominal(sorted[placements[k].originalIndex + 1].size,
                                     sorted, req.nonlinearPower10)

\* C35: the adaptive run terminates.  A word in the shrink loop has made
\* fewer failed attempts than its size has pixels, and its attempt size
\* size * 0.7^attempt is still 4 or more; the force sub-pass has made at
\* most 9 failed attempts when it tries again; an iteration of the fill loop
\* either adds one duplicate and counts it or leaves the loop, and the count
\* never exceeds min(400, 8n); every adaptive render that has started
\* reaches its end.
C35_Terminates ==
    /\ []( pc = "shrink" =>
              /\ AttemptSizeOK(sorted[i + 1].size, attempt)
              /\ attempt < sorted[i + 1].size )
    /\ []( pc = "force" => forceAttempt \in 0..9 )
    /\ []( pc = "fill" => duplicateCount <= Min(400, 8 * Len(sorted)) )
    /\ [][ (pc = "shrink" /\ pc' = "shrink") => attempt' = attempt + 1 ]_vars
    /\ [][ (pc = "force" /\ pc' = "force") => forceAttempt' = forceAttempt + 1 ]_vars
    /\ [][ (pc = "fill")
            => ( \/ pc' # "fill"
                 \/ /\ duplicateCount' = duplicateCount + 1
                    /\ Len(placements') = Len(placements) + 1 ) ]_vars
    /\ ( (pc = "start" /\ req.adaptive) ~> (pc = "done") )

\* an adaptive render has ended after one word went through the shrink
\* loop, another through ten force attempts and was left out
C35_Witness ==
    /\ pc = "done"
    /\ req.adaptive
    /\ omitted # {}
    /\ \E k \in 1..Len(placements) : placements[k].phase = "shrink"

\* C36 (as stated): whatever getWordSprite calls came before, the sprite a
\* call returns equals the sprite a fresh rasterization of its parameters,
\* alphaThreshold included, gives.
C36_CacheTransparent ==
    lastReturn.called =>
        FreshSprite(lastReturn.sprite.madeFor) = FreshSprite(lastReturn.params)

\* C37 (as stated): two runs of placeWordsAdvanced without jitter on the
\* same words, options, allowed mask and prior occupancy return the same
\* placement positions and the same occupancy grid, whatever the sprite
\* cache of each run holds.
C37_Deterministic ==
    pc = "twinned" =>
       /\ twinOut[1].occupiedMask = twinOut[2].occupiedMask
       /\ Len(twinOut[1].placements) = Len(twinOut[2].placements)
       /\ \A k \in 1..Len(twinOut[1].placements) :
             /\ twinOut[1].placements[k].x = twinOut[2].placements[k].x
             /\ twinOut[1].placements[k].y = twinOut[2].placements[k].y

AllDone == pc = "app" /\ \A r \in RequestIds : rPc[r] = "done"

\* C38: once two renderSpiralAdvanced calls on the same SVG element have
\* both completed, the second having started while the first awaited its
\* mask, the SVG holds exactly one root group, that group holds exactly one
\* word layer (root group and layer are the work of one call), and the zoom
\* behaviour exposed on the element transforms that group; this for every
\* order in which the two masks arrive.
C38_OnePicture ==
    (AllDone /\ "enter" \in overlap) =>
        /\ Len(domRoots) = 1
        /\ rootLayers[domRoots[1]] = 1
        /\ zoomRoot = domRoots[1]

\* both calls have completed after the second entered during the await of
\* the first, and the call whose root group was removed from the SVG has
\* drawn its layer as well
C38_Witness ==
    /\ AllDone
    /\ "enter" \in overlap
    /\ \A r \in RequestIds : rootLayers[r] = 1
    /\ \E r \in RequestIds : statusLine.by = r /\ domRoots # <<r>>

\* C39 (as stated): when render() is triggered again while an earlier
\* render() awaits its parse or its mask, then once all have completed the
\* word cloud shown and the status line are those of the request triggered
\* last, whatever the order in which the awaited operations complete.
C39_LatestWins ==
    (AllDone /\ "trigger" \in overlap) =>
        /\ domRoots = <<2>>
        /\ rootLayers[2] = 1
        /\ statusLine = [by |-> 2, text |-> "done"]

=============================================================================
